---- MODULE Spec2Model ----
(***************************************************************************)
(* A model of the request batching scheduler of dismissible-react-client   *)
(* (class BatchScheduler) together with the JavaScript run-to-completion   *)
(* semantics it relies on: a FIFO microtask queue of promise reactions,    *)
(* caller code running in synchronous turns, and the collaborators         *)
(* (getAuthHeaders, client.batchGetOrCreate) settling their promises at    *)
(* arbitrary later points. A second specification, HookSpec, puts the      *)
(* fetchItem callback of the useDismissibleItem hook and the localStorage  *)
(* entry it reads and writes on top of the scheduler.                      *)
(***************************************************************************)
EXTENDS Integers, Sequences, FiniteSets, TLC

VARIABLES
  maxBatchSize,       \* this.config.maxBatchSize after the constructor
  cache,              \* this.cache: itemId -> item (NoItem: no entry)
  pendingRequests,    \* this.pendingRequests: sequence of request (promise) ids
  isScheduled,        \* this.isScheduled
  inFlightRequests,   \* this.inFlightRequests: itemId -> promise id (NoPromise: no entry)
  promises,           \* every promise created by getItem, with its resolve/reject callbacks
  microtasks,         \* the engine's FIFO microtask queue
  execs,              \* every executeBatch activation, with its local variables
  ret,                \* what the latest getItem call returned
  turn,               \* whether caller code is running, and the turn that started the queue
  synced,             \* itemId -> the item last handed to updateCache, until the next
                      \* primeCache / updateCache of the id or clearCache (NoItem: none)
  localStorage,       \* localStorage: key -> entry (NoEntry: none)
  now,                \* Date.now()
  hook                \* the options, state and suspended fetchItem calls of the hook

hookVars == <<localStorage, now, hook>>

vars == <<maxBatchSize, cache, pendingRequests, isScheduled, inFlightRequests,
          promises, microtasks, execs, ret, turn, synced, localStorage, now, hook>>

----------------------------------------------------------------------------
(* Bounds and value spaces *)

\* getItem creates at most this many promises in one behaviour
MaxReq == 3

\* the partition loop is also checked on its own for up to this many ids
MaxIds == 5

\* maxBatchSize ?? 50
DefaultMaxBatchSize == 50

ItemIds == {"a", "b"}

\* the part of a DismissibleItem other than itemId (createdAt, dismissedAt):
\* 1 for an item with no dismissedAt, 2 for a dismissed one
Vals == {1, 2}

Items == [itemId : ItemIds, val : Vals]

\* the items caller code hands to primeCache / updateCache: either state of one id
CallerItems == {item \in Items : item.itemId = "a"}

\* Map.get(...) === undefined
NoItem == [itemId |-> "undefined", val |-> 0]

\* an element of a response array that is no object (null / undefined):
\* reading its itemId throws a TypeError
Malformed == [itemId |-> "null", val |-> 0]

NoPromise == 0

\* maxBatchSize values handed to the constructor; Undefined stands for an absent option
Undefined == -1
ConfiguredSizes == {1, Undefined}

\* what a collaborator may reject with: an Error, or a value that is no Error
ApiError == "API Error"
AuthError == "Auth Error"
NonError == "a non-Error value"
BatchRequestFailed == "Batch request failed"
TypeError == "TypeError: cannot read itemId"

\* the item the server holds for an id
ServerItem(itemId) == [itemId |-> itemId, val |-> 1]

----------------------------------------------------------------------------
(* Helpers *)

Min(m, n) == IF m < n THEN m ELSE n

Range(s) == {s[i] : i \in DOMAIN s}

RECURSIVE Flat(_)
\* batchResults.flat()
Flat(ss) == IF ss = <<>> THEN <<>> ELSE Head(ss) \o Flat(Tail(ss))

\* the constructor: maxBatchSize: config.maxBatchSize ?? 50
Constructor(size) == IF size = Undefined THEN DefaultMaxBatchSize ELSE size

\* the itemId a request was created for
ItemIdOf(p) == promises[p].itemId

RECURSIVE UniqueFrom(_, _)
UniqueFrom(ids, seen) ==
  IF ids = <<>> THEN <<>>
  ELSE IF Head(ids) \in seen THEN UniqueFrom(Tail(ids), seen)
  ELSE <<Head(ids)>> \o UniqueFrom(Tail(ids), seen \cup {Head(ids)})

\* Array.from(itemIdToRequests.keys()): the requested ids, first occurrence order
UniqueItemIds(requests) == UniqueFrom([i \in DOMAIN requests |-> ItemIdOf(requests[i])], {})

\* itemIdToRequests.get(itemId): the requests of the snapshot that asked for itemId
ItemIdToRequests(requests, itemId) == SelectSeq(requests, LAMBDA p : ItemIdOf(p) = itemId)

RECURSIVE Slices(_, _, _, _)
\* for (; i < ids.length; i += step) push(ids.slice(i, i + size))
Slices(ids, i, size, step) ==
  IF i >= Len(ids) THEN <<>>
  ELSE <<SubSeq(ids, i + 1, Min(i + size, Len(ids)))>> \o Slices(ids, i + step, size, step)

\* mutant: the ids are sent in one call, whatever maxBatchSize is
BatchesUnsplit(uniqueItemIds, size) == <<uniqueItemIds>>

\* mutant: the loop advances by one (i++), so the slices overlap
BatchesOverlapping(uniqueItemIds, size) == Slices(uniqueItemIds, 0, size, 1)

\* the partition loop: for (i = 0; i < length; i += maxBatchSize) push(slice(i, i + maxBatchSize))
Batches(uniqueItemIds, size) == Slices(uniqueItemIds, 0, size, size)

\* mutant: what was thrown is passed on as it is
NormaliseErrorKeep(error) == error

\* error instanceof Error ? error : new Error("Batch request failed")
NormaliseError(error) == IF error = NonError THEN BatchRequestFailed ELSE error

\* new Error(`Item ${itemId} not found in batch response`)
NotFoundError(itemId) == "Item " \o itemId \o " not found in batch response"

\* the arrays a batchGetOrCreate call for itemIds may resolve with: the server's
\* items for any part of the requested ids, in request order (all of them under the
\* fetch-or-create contract, fewer when the server breaks it), possibly followed by
\* an element that is no item
Responses(itemIds) ==
  LET Part(S) == SelectSeq([i \in DOMAIN itemIds |-> ServerItem(itemIds[i])],
                           LAMBDA item : item.itemId \in S)
  IN {Part(S) : S \in SUBSET Range(itemIds)}
       \cup {Append(Part(S), Malformed) : S \in SUBSET Range(itemIds)}

----------------------------------------------------------------------------
(* Promises: the promise getItem creates, and its resolve / reject callbacks *)

\* born: how many activations of executeBatch had taken their snapshot of the
\*       queue when getItem created the promise
NewPromise(itemId) ==
  [itemId |-> itemId, state |-> "pending", value |-> NoItem, error |-> "",
   resolveCalls |-> 0, rejectCalls |-> 0, cleaned |-> FALSE, born |-> Len(execs)]

\* request.resolve(item): settles the promise unless it is settled already
ResolveRequest(pr, item) ==
  IF pr.state = "pending"
  THEN [pr EXCEPT !.state = "fulfilled", !.value = item, !.resolveCalls = @ + 1]
  ELSE [pr EXCEPT !.resolveCalls = @ + 1]

\* request.reject(error)
RejectRequest(pr, error) ==
  IF pr.state = "pending"
  THEN [pr EXCEPT !.state = "rejected", !.error = error, !.rejectCalls = @ + 1]
  ELSE [pr EXCEPT !.rejectCalls = @ + 1]

\* once the reactions to a settled promise have run, what it settled with has been
\* delivered; the record keeps the state and the callback counts
Clean(pr) == [pr EXCEPT !.value = NoItem, !.error = "", !.cleaned = TRUE]

Job(type, n) == [type |-> type, n |-> n]

RECURSIVE ReactionJobs(_, _)
\* the reaction jobs queued when the promises of `settled` that were pending in
\* `before` settle, in settlement order. Each promise has the scheduler's own
\* .catch(...) registered inside getItem and, right behind it, the caller's reaction
\* (await / then), registered after getItem returned; the two run back to back and
\* are one job here
ReactionJobs(settled, before) ==
  IF settled = <<>> THEN <<>>
  ELSE (IF before[Head(settled)].state = "pending"
        THEN <<Job("catch", Head(settled))>>
        ELSE <<>>) \o ReactionJobs(Tail(settled), before)

----------------------------------------------------------------------------
(* Initial state: a freshly constructed scheduler *)

\* open: caller code is running ahead of the queued microtasks (a reaction to a
\*       getItem promise); with no microtask queued a caller task may always start
\* mine: the running turn is the one that created the first request of the queue
\* reqs: the requests the turn that started the queue has created
\* sole: no other turn has added a request to the queue
\* made: the requests the running turn has created
NoTurn == [open |-> FALSE, mine |-> FALSE, reqs |-> <<>>, sole |-> TRUE, made |-> <<>>]

NoReturn == [kind |-> "none", itemId |-> "", item |-> NoItem, p |-> NoPromise]

\* the jwt prop: absent, a string, a function returning a string (sync), or a
\* function returning a promise of one (async)
NoJwt == [kind |-> "undefined", token |-> ""]

\* no dismiss / restore call has returned yet
NoOutcome == [op |-> "none", status |-> "none", data |-> NoItem, thrown |-> ""]

\* localStorage.getItem(key) === null
NoEntry == [data |-> NoItem, timestamp |-> -1]

\* the cachePrefix options: the default, and another one
DefaultCachePrefix == "dismissible"
CachePrefixes == {DefaultCachePrefix, "custom"}

\* `${cachePrefix}_${userId}-${itemId}`, for the one userId of the provider
StorageKey(cachePrefix, itemId) == <<cachePrefix, itemId>>

StorageKeys == {StorageKey(cachePrefix, itemId) : cachePrefix \in CachePrefixes, itemId \in ItemIds}

\* itemId:     the itemId the hook is called with
\* enableCache, cachePrefix, cacheExpiration: the options of the hook
\* item, isLoading, error: its useState values
\* controller: abortControllerRef.current, the number of the fetchItem call that
\*             created it (0: null)
\* aborted:    the controllers whose signal is aborted
\* awaits:     the fetchItem calls suspended at `await batchScheduler.getItem`
\* calls:      how many times fetchItem has been called
\* last:       the way the latest fetchItem call went (durable, scheduler)
\* phase:      rendered (no effect has run yet), mounted, unmounted
\* initialData: the initialData option
\* jwt:        the jwt prop of the provider above the hook
\* mutations:  the dismiss / restore calls that have not returned yet
\* mcalls:     how many times dismiss or restore has been called
\* outcome:    how the latest dismiss / restore call that returned went
NoHook ==
  [itemId |-> "a", enableCache |-> TRUE, cachePrefix |-> DefaultCachePrefix,
   cacheExpiration |-> Undefined, item |-> NoItem,
   isLoading |-> FALSE, error |-> "", controller |-> 0, aborted |-> {},
   awaits |-> <<>>, calls |-> 0, last |-> "none",
   phase |-> "mounted", initialData |-> NoItem, jwt |-> NoJwt,
   mutations |-> <<>>, mcalls |-> 0, outcome |-> NoOutcome]

SchedulerInit ==
  /\ maxBatchSize \in {Constructor(size) : size \in ConfiguredSizes}
  /\ cache = [id \in ItemIds |-> NoItem]
  /\ pendingRequests = <<>>
  /\ isScheduled = FALSE
  /\ inFlightRequests = [id \in ItemIds |-> NoPromise]
  /\ promises = <<>>
  /\ microtasks = <<>>
  /\ execs = <<>>
  /\ ret = NoReturn
  /\ turn = NoTurn
  /\ synced = [id \in ItemIds |-> NoItem]

\* no hook is mounted: the scheduler is driven by caller code of any kind
Init ==
  /\ SchedulerInit
  /\ localStorage = [key \in StorageKeys |-> NoEntry]
  /\ now = 0
  /\ hook = NoHook

----------------------------------------------------------------------------
(* getItem, primeCache, updateCache, clearCache: called from caller code *)

\* mutant: getItem does not look into the cache
CacheGetMiss(itemId) == NoItem

\* this.cache.get(itemId)
CacheGet(itemId) == cache[itemId]

\* mutant: getItem does not look for an in-flight request
InFlightGetMiss(itemId) == NoPromise

\* this.inFlightRequests.get(itemId)
InFlightGet(itemId) == inFlightRequests[itemId]

\* mutant: the new promise is not recorded as in flight
InFlightSetForgotten(itemId, p) == inFlightRequests

\* this.inFlightRequests.set(itemId, promise)
InFlightSet(itemId, p) == [inFlightRequests EXCEPT ![itemId] = p]

\* mutant: the deferral is never queued
ScheduleBatchNever(queue) == queue

\* mutant: every new request queues a deferral
ScheduleBatchAlways(queue) == Append(queue, Job("executeBatch", 0))

\* if (!this.isScheduled) { this.isScheduled = true; queueMicrotask(() => this.executeBatch()) }
ScheduleBatch(queue) ==
  IF isScheduled THEN queue ELSE Append(queue, Job("executeBatch", 0))

\* caller code runs as a task, when no microtask is queued, or as the reaction to a
\* getItem promise; once it has run, it runs on until the next microtask
CallerMayRun == ret = NoReturn /\ (turn.open \/ microtasks = <<>>)

\* the turn's record when it creates request p: a turn that finds the queue empty
\* starts the next batch; one that finds requests of an earlier turn joins them
TurnAfterEnqueue(p) ==
  IF pendingRequests = <<>>
  THEN [open |-> TRUE, mine |-> TRUE, reqs |-> <<p>>, sole |-> TRUE,
        made |-> Append(turn.made, p)]
  ELSE IF turn.mine
  THEN [turn EXCEPT !.open = TRUE, !.reqs = Append(@, p), !.made = Append(@, p)]
  ELSE [turn EXCEPT !.open = TRUE, !.sole = FALSE, !.made = Append(@, p)]

\* the body of getItem(itemId)
GetItemCall(itemId) ==
  LET cached == CacheGet(itemId)
      inFlight == InFlightGet(itemId)
      p == Len(promises) + 1
  IN
  /\ CallerMayRun
  /\ IF cached # NoItem
     THEN \* return Promise.resolve(cached)
          /\ ret' = [kind |-> "cached", itemId |-> itemId, item |-> cached, p |-> NoPromise]
          /\ UNCHANGED <<maxBatchSize, synced, cache, pendingRequests, isScheduled,
                         inFlightRequests, promises, microtasks, execs, turn>>
     ELSE IF inFlight # NoPromise
     THEN \* return inFlight
          /\ ret' = [kind |-> "inflight", itemId |-> itemId, item |-> NoItem, p |-> inFlight]
          /\ UNCHANGED <<maxBatchSize, synced, cache, pendingRequests, isScheduled,
                         inFlightRequests, promises, microtasks, execs, turn>>
     ELSE \* a new pending request
          /\ Len(promises) < MaxReq
          /\ promises' = Append(promises, NewPromise(itemId))
          /\ pendingRequests' = Append(pendingRequests, p)
          /\ inFlightRequests' = InFlightSet(itemId, p)
          /\ microtasks' = ScheduleBatch(microtasks)
          /\ isScheduled' = TRUE
          /\ ret' = [kind |-> "new", itemId |-> itemId, item |-> NoItem, p |-> p]
          /\ turn' = TurnAfterEnqueue(p)
          /\ UNCHANGED <<maxBatchSize, synced, cache, execs>>

\* getItem called by code other than the hook
GetItem(itemId) == GetItemCall(itemId) /\ UNCHANGED hookVars

\* the caller takes what getItem returned and runs on
Return ==
  /\ ret # NoReturn
  /\ ret' = NoReturn
  /\ UNCHANGED <<hookVars, maxBatchSize, synced, cache, pendingRequests, isScheduled, inFlightRequests,
                 promises, microtasks, execs, turn>>

\* mutant: an existing entry is kept
CacheSetIfAbsent(c, item) ==
  IF c[item.itemId] = NoItem THEN [c EXCEPT ![item.itemId] = item] ELSE c

\* this.cache.set(item.itemId, item)
CacheSet(c, item) == [c EXCEPT ![item.itemId] = item]

\* the body of primeCache(item)
PrimeCacheCall(item) ==
  /\ CallerMayRun
  /\ cache' = CacheSet(cache, item)
  /\ ret' = NoReturn
  /\ synced' = [synced EXCEPT ![item.itemId] = NoItem]
  /\ UNCHANGED <<maxBatchSize, pendingRequests, isScheduled, inFlightRequests,
                 promises, microtasks, execs, turn>>

\* primeCache called by code other than the hook
PrimeCache(item) == PrimeCacheCall(item) /\ UNCHANGED hookVars

\* updateCache(item): this.cache.set(item.itemId, item)
UpdateCacheCall(item) ==
  /\ CallerMayRun
  /\ cache' = CacheSet(cache, item)
  /\ ret' = NoReturn
  /\ synced' = [synced EXCEPT ![item.itemId] = item]
  /\ UNCHANGED <<maxBatchSize, pendingRequests, isScheduled, inFlightRequests,
                 promises, microtasks, execs, turn>>

\* updateCache called by caller code of any kind
UpdateCache(item) == UpdateCacheCall(item) /\ UNCHANGED hookVars

\* mutant: clearCache resets the in-flight map along with the cache
ClearCacheAndInFlight ==
  /\ CallerMayRun
  /\ cache' = [id \in ItemIds |-> NoItem]
  /\ inFlightRequests' = [id \in ItemIds |-> NoPromise]
  /\ ret' = NoReturn
  /\ synced' = [id \in ItemIds |-> NoItem]
  /\ UNCHANGED <<hookVars, maxBatchSize, pendingRequests, isScheduled,
                 promises, microtasks, execs, turn>>

\* this.cache.clear()
ClearCache ==
  /\ CallerMayRun
  /\ cache' = [id \in ItemIds |-> NoItem]
  /\ ret' = NoReturn
  /\ synced' = [id \in ItemIds |-> NoItem]
  /\ UNCHANGED <<hookVars, maxBatchSize, pendingRequests, isScheduled, inFlightRequests,
                 promises, microtasks, execs, turn>>

----------------------------------------------------------------------------
(* executeBatch: one activation per deferral, suspended at its two awaits *)

NoError == ""

\* authHeaders before getAuthHeaders() has resolved
NoHeaders == <<"pending">>

\* the value the n-th activation's getAuthHeaders() promise resolves with: the
\* callback may return a different object on every invocation
Headers(n) == <<"headers", n>>

\* what is left of an activation nothing can reach any more
Collected ==
  [requests |-> <<>>, batches |-> <<>>, phase |-> "done", auth |-> "resolved",
   error |-> NoError, raised |-> NoError,
   authCalls |-> 1, headers |-> NoHeaders, sent |-> <<>>,
   chunks |-> <<>>, resp |-> <<>>, turnIds |-> <<>>, sole |-> TRUE, late |-> FALSE]

\* garbage collection: an activation that has returned, whose calls have all
\* returned and whose promises have all been cleaned up is unreachable
Collect(xs, ps) ==
  [e \in DOMAIN xs |->
     IF /\ xs[e].phase = "done"
        /\ \A k \in DOMAIN xs[e].chunks : xs[e].chunks[k] # "out"
        /\ \A i \in DOMAIN xs[e].requests : ps[xs[e].requests[i]].cleaned
     THEN [Collected EXCEPT !.late = xs[e].late] ELSE xs[e]]

\* the local variables of an activation that got past the empty check
NewExec(requests, batches) ==
  [requests |-> requests,
   batches  |-> batches,
   phase    |-> "auth",          \* auth, authSettled, calls, allSettled, done
   auth     |-> "pending",       \* getAuthHeaders(): pending, resolved, rejected, threw
   error    |-> NoError,         \* what the awaited promise rejected with
   raised   |-> NoError,         \* what a collaborator threw or rejected with
   authCalls |-> 1,              \* invocations of config.getAuthHeaders
   headers  |-> NoHeaders,       \* const authHeaders
   sent     |-> [k \in DOMAIN batches |-> NoHeaders],  \* authHeaders of call k
   chunks   |-> [k \in DOMAIN batches |-> "none"],   \* none, out, ok, fail
   resp     |-> [k \in DOMAIN batches |-> <<>>],     \* batchResults
   turnIds  |-> IF turn.sole THEN [i \in DOMAIN turn.reqs |-> ItemIdOf(turn.reqs[i])]
                ELSE <<>>,
   sole     |-> turn.sole,
   late     |-> FALSE]               \* a call returned after Promise.all had rejected

\* mutant: only the first request of the snapshot is rejected
RejectHead(ps, requests, err) ==
  [p \in DOMAIN ps |->
     IF requests # <<>> /\ p = Head(requests) THEN RejectRequest(ps[p], err) ELSE ps[p]]

\* mutant: the catch block rejects every request the scheduler knows of
RejectEvery(ps, requests, err) == [p \in DOMAIN ps |-> RejectRequest(ps[p], err)]

\* catch (error): for (const request of requests) request.reject(err)
RejectAll(ps, requests, err) ==
  [p \in DOMAIN ps |->
     IF p \in Range(requests) THEN RejectRequest(ps[p], err) ELSE ps[p]]

\* a microtask or a collaborator's settlement ends the synchronous turn
EndTurn == [turn EXCEPT !.open = FALSE, !.mine = FALSE, !.made = <<>>]

\* a caller's reaction to a settled getItem promise starts a turn
ReactionTurn == [turn EXCEPT !.open = TRUE, !.mine = FALSE, !.made = <<>>]

\* the promises of the collaborators settle from tasks (I/O completions), which
\* the event loop runs when no microtask is queued
TaskMayRun == ret = NoReturn /\ microtasks = <<>>

\* mutant: the queue is not emptied when the snapshot is taken
QueueKept(requests) == requests

\* this.pendingRequests = []: the queue an activation leaves behind
QueueAfterSnapshot(requests) == <<>>

\* mutant: the snapshot takes the first request of the queue only
SnapshotHead(queue) == IF queue = <<>> THEN <<>> ELSE <<Head(queue)>>

\* const requests = this.pendingRequests
Snapshot(queue) == queue

\* executeBatch, run as a microtask; thrown holds what getAuthHeaders() may
\* throw before it returns a promise
ExecuteBatchWith(thrown) ==
  /\ ret = NoReturn
  /\ microtasks # <<>>
  /\ Head(microtasks).type = "executeBatch"
  /\ LET requests == Snapshot(pendingRequests)
         uniqueItemIds == UniqueItemIds(requests)
         batches == Batches(uniqueItemIds, maxBatchSize)
     IN
     /\ isScheduled' = FALSE
     /\ pendingRequests' = QueueAfterSnapshot(requests)
     /\ ret' = NoReturn
     /\ turn' = NoTurn
     /\ IF requests = <<>>
        THEN /\ microtasks' = Tail(microtasks)
             /\ UNCHANGED <<execs, promises>>
        ELSE \/ \* getAuthHeaders() returns its promise: suspend at the await
                /\ execs' = Append(execs, NewExec(requests, batches))
                /\ microtasks' = Tail(microtasks)
                /\ UNCHANGED promises
             \/ \* getAuthHeaders() throws: the catch block runs at once
                \E error \in thrown :
                  /\ execs' = Append(execs,
                        [NewExec(requests, batches) EXCEPT
                           !.phase = "done", !.auth = "threw",
                           !.error = NormaliseError(error), !.raised = error])
                  /\ promises' = RejectAll(promises, requests, NormaliseError(error))
                  /\ microtasks' = Tail(microtasks) \o ReactionJobs(requests, promises)
     /\ UNCHANGED <<hookVars, maxBatchSize, synced, cache, inFlightRequests>>

\* executeBatch with a getAuthHeaders callback of any kind, which may throw
\* before it returns a promise
ExecuteBatch == ExecuteBatchWith({AuthError, NonError})

\* the promise returned by getAuthHeaders() fulfils with headers
AuthResolvesWith(e, headers) ==
  /\ TaskMayRun
  /\ execs[e].phase = "auth"
  /\ execs' = [execs EXCEPT ![e].phase = "authSettled", ![e].auth = "resolved",
                             ![e].headers = headers]
  /\ microtasks' = Append(microtasks, Job("afterAuth", e))
  /\ ret' = NoReturn
  /\ turn' = EndTurn
  /\ UNCHANGED <<hookVars, maxBatchSize, synced, cache, pendingRequests, isScheduled,
                 inFlightRequests, promises>>

\* the getAuthHeaders callback of a caller of any kind fulfils its promise
AuthResolves(e) == AuthResolvesWith(e, Headers(e))

\* the promise returned by getAuthHeaders() rejects
AuthRejects(e, error) ==
  /\ TaskMayRun
  /\ execs[e].phase = "auth"
  /\ execs' = [execs EXCEPT ![e].phase = "authSettled", ![e].auth = "rejected",
                             ![e].error = error, ![e].raised = error]
  /\ microtasks' = Append(microtasks, Job("afterAuth", e))
  /\ ret' = NoReturn
  /\ turn' = EndTurn
  /\ UNCHANGED <<hookVars, maxBatchSize, synced, cache, pendingRequests, isScheduled,
                 inFlightRequests, promises>>

\* mutant: the headers are resolved again for each chunk's call
IssueCallsOwnHeaders(ex) ==
  [ex EXCEPT !.phase = "calls",
             !.chunks = [k \in DOMAIN ex.batches |-> "out"],
             !.authCalls = ex.authCalls + Len(ex.batches),
             !.sent = [k \in DOMAIN ex.batches |-> Headers(Len(execs) + k)]]

\* batches.map((batchItemIds) => this.config.client.batchGetOrCreate({...})):
\* every chunk's call is issued with the one authHeaders value, none has
\* returned
IssueCalls(ex) == [ex EXCEPT !.phase = "calls",
                             !.chunks = [k \in DOMAIN ex.batches |-> "out"],
                             !.sent = [k \in DOMAIN ex.batches |-> ex.headers]]

\* executeBatch resumes after `await this.config.getAuthHeaders()`
AfterAuth ==
  /\ ret = NoReturn
  /\ microtasks # <<>>
  /\ Head(microtasks).type = "afterAuth"
  /\ LET e == Head(microtasks).n
         ex == execs[e]
     IN
     IF ex.error = NoError
     THEN /\ execs' = [execs EXCEPT ![e] = IssueCalls(ex)]
          /\ microtasks' = Tail(microtasks)
          /\ UNCHANGED promises
     ELSE /\ execs' = [execs EXCEPT ![e].phase = "done",
                                    ![e].error = NormaliseError(ex.error)]
          /\ promises' = RejectAll(promises, ex.requests, NormaliseError(ex.error))
          /\ microtasks' = Tail(microtasks) \o ReactionJobs(ex.requests, promises)
  /\ ret' = NoReturn
  /\ turn' = EndTurn
  /\ UNCHANGED <<hookVars, maxBatchSize, synced, cache, pendingRequests, isScheduled, inFlightRequests>>

\* mutant: the execution goes on as soon as one chunk's promise has fulfilled
AnyFulfilled(chunks) == \E k \in DOMAIN chunks : chunks[k] = "ok"

\* Promise.all fulfils once every chunk's promise has fulfilled
AllFulfilled(chunks) == \A k \in DOMAIN chunks : chunks[k] = "ok"

\* mutant: the promise of Promise.all can settle again
AllPendingStill(ex) == TRUE

\* the promise of Promise.all is pending: executeBatch is suspended at its await
AllPending(ex) == ex.phase = "calls"

\* chunk k's batchGetOrCreate promise fulfils with `response`
ChunkResolves(e, k, response) ==
  /\ TaskMayRun
  /\ k \in DOMAIN execs[e].chunks
  /\ execs[e].chunks[k] = "out"
  /\ LET ex == execs[e]
         chunks == [ex.chunks EXCEPT ![k] = "ok"]
     IN
     IF AllPending(ex)
     THEN IF AllFulfilled(chunks)
          THEN /\ execs' = [execs EXCEPT ![e].chunks = chunks, ![e].resp[k] = response,
                                         ![e].phase = "allSettled"]
               /\ microtasks' = Append(microtasks, Job("afterAll", e))
          ELSE /\ execs' = [execs EXCEPT ![e].chunks = chunks, ![e].resp[k] = response]
               /\ UNCHANGED microtasks
     ELSE \* Promise.all has rejected already: the value has no reader
          /\ execs' = Collect([execs EXCEPT ![e].chunks = chunks, ![e].late = TRUE],
                              promises)
          /\ UNCHANGED microtasks
  /\ ret' = NoReturn
  /\ turn' = EndTurn
  /\ UNCHANGED <<hookVars, maxBatchSize, synced, cache, pendingRequests, isScheduled,
                 inFlightRequests, promises>>

\* chunk k's batchGetOrCreate promise rejects: Promise.all rejects with the first
\* rejection, without waiting for the other chunks
ChunkRejects(e, k, error) ==
  /\ TaskMayRun
  /\ k \in DOMAIN execs[e].chunks
  /\ execs[e].chunks[k] = "out"
  /\ LET ex == execs[e]
         chunks == [ex.chunks EXCEPT ![k] = "fail"]
     IN
     IF AllPending(ex)
     THEN /\ execs' = [execs EXCEPT ![e].chunks = chunks, ![e].phase = "allSettled",
                                    ![e].error = error, ![e].raised = error,
                                    ![e].resp = [j \in DOMAIN ex.batches |-> <<>>]]
          /\ microtasks' = Append(microtasks, Job("afterAll", e))
     ELSE /\ execs' = Collect([execs EXCEPT ![e].chunks = chunks, ![e].late = TRUE],
                              promises)
          /\ UNCHANGED microtasks
  /\ ret' = NoReturn
  /\ turn' = EndTurn
  /\ UNCHANGED <<hookVars, maxBatchSize, synced, cache, pendingRequests, isScheduled,
                 inFlightRequests, promises>>

\* reading item.itemId of an element that is no object throws
HasMalformed(allItems) == \E i \in DOMAIN allItems : allItems[i] = Malformed

\* mutant: the response is not written into the cache
CacheSetNone(c, allItems) == c

RECURSIVE CacheSetAll(_, _)
\* for (const item of allItems) { itemsMap.set(item.itemId, item); this.cache.set(item.itemId, item) }
\* up to the element, if any, at which the loop throws
CacheSetAll(c, allItems) ==
  IF allItems = <<>> \/ Head(allItems) = Malformed THEN c
  ELSE CacheSetAll(CacheSet(c, Head(allItems)), Tail(allItems))

RECURSIVE ItemsMapGet(_, _)
\* itemsMap.get(itemId): the last element of allItems that carries itemId
ItemsMapGet(allItems, itemId) ==
  IF allItems = <<>> THEN NoItem
  ELSE IF allItems[Len(allItems)].itemId = itemId THEN allItems[Len(allItems)]
  ELSE ItemsMapGet(SubSeq(allItems, 1, Len(allItems) - 1), itemId)

\* for (const [itemId, itemRequests] of itemIdToRequests) for (const request of itemRequests):
\* the order in which the requests of a snapshot are settled
SettleOrder(requests) ==
  LET uniqueItemIds == UniqueItemIds(requests)
  IN Flat([k \in DOMAIN uniqueItemIds |-> ItemIdToRequests(requests, uniqueItemIds[k])])

\* if (item) request.resolve(item) else request.reject(new Error(`Item ... not found ...`))
SettleRequest(pr, itemId, item) ==
  IF item # NoItem THEN ResolveRequest(pr, item)
  ELSE RejectRequest(pr, NotFoundError(itemId))

\* mutant: one missing item rejects every request of the execution
ResolveAllOrNothing(ps, requests, allItems) ==
  LET missing == {p \in Range(requests) : ItemsMapGet(allItems, ps[p].itemId) = NoItem}
  IN [p \in DOMAIN ps |->
        IF p \notin Range(requests) THEN ps[p]
        ELSE IF missing # {}
        THEN RejectRequest(ps[p], NotFoundError(ps[CHOOSE q \in missing : TRUE].itemId))
        ELSE ResolveRequest(ps[p], ItemsMapGet(allItems, ps[p].itemId))]

\* mutant: a missing item throws out of the loop, and the catch block rejects every
\* request, those the loop has resolved already included
ResolveAllThrowOnMissing(ps, requests, allItems) ==
  LET order == SettleOrder(requests)
      Missing(i) == ItemsMapGet(allItems, ps[order[i]].itemId) = NoItem
      Pos(p) == CHOOSE i \in DOMAIN order : order[i] = p
  IN [p \in DOMAIN ps |->
        IF p \notin Range(order) THEN ps[p]
        ELSE IF \E i \in DOMAIN order : Missing(i)
        THEN LET first == CHOOSE i \in DOMAIN order :
                            Missing(i) /\ \A j \in 1..(i - 1) : ~Missing(j)
                 err == NotFoundError(ps[order[first]].itemId)
             IN IF Pos(p) < first
                THEN RejectRequest(ResolveRequest(ps[p],
                                     ItemsMapGet(allItems, ps[p].itemId)), err)
                ELSE RejectRequest(ps[p], err)
        ELSE ResolveRequest(ps[p], ItemsMapGet(allItems, ps[p].itemId))]

\* the "Resolve all pending requests" loop
ResolveAll(ps, requests, allItems) ==
  [p \in DOMAIN ps |->
     IF p \in Range(SettleOrder(requests))
     THEN SettleRequest(ps[p], ps[p].itemId, ItemsMapGet(allItems, ps[p].itemId))
     ELSE ps[p]]

\* the activation is over: its locals are garbage
Finish(ex, error) ==
  [ex EXCEPT !.phase = "done", !.error = error,
             !.resp = [k \in DOMAIN ex.batches |-> <<>>]]

\* executeBatch resumes after `await Promise.all(...)`
AfterAll ==
  /\ ret = NoReturn
  /\ microtasks # <<>>
  /\ Head(microtasks).type = "afterAll"
  /\ LET e == Head(microtasks).n
         ex == execs[e]
         allItems == Flat(ex.resp)
     IN
     IF ex.error # NoError
     THEN \* Promise.all rejected
          /\ execs' = [execs EXCEPT ![e] = Finish(ex, NormaliseError(ex.error))]
          /\ promises' = RejectAll(promises, ex.requests, NormaliseError(ex.error))
          /\ microtasks' = Tail(microtasks) \o ReactionJobs(ex.requests, promises)
          /\ UNCHANGED cache
     ELSE IF HasMalformed(allItems)
     THEN \* the loop over allItems throws part-way
          /\ execs' = [execs EXCEPT ![e] = Finish(ex, TypeError)]
          /\ cache' = CacheSetAll(cache, allItems)
          /\ promises' = RejectAll(promises, ex.requests, TypeError)
          /\ microtasks' = Tail(microtasks) \o ReactionJobs(ex.requests, promises)
     ELSE /\ execs' = [execs EXCEPT ![e] = Finish(ex, NoError)]
          /\ cache' = CacheSetAll(cache, allItems)
          /\ promises' = ResolveAll(promises, ex.requests, allItems)
          /\ microtasks' = Tail(microtasks) \o ReactionJobs(SettleOrder(ex.requests), promises)
  /\ ret' = NoReturn
  /\ turn' = EndTurn
  /\ UNCHANGED <<hookVars, maxBatchSize, synced, pendingRequests, isScheduled, inFlightRequests>>

----------------------------------------------------------------------------
(* The reactions to a getItem promise *)

\* promise.catch(() => {}): its derived promise fulfils, which queues the .finally;
\* the caller's reaction to the same settlement runs here too
CatchHandler ==
  /\ ret = NoReturn
  /\ microtasks # <<>>
  /\ Head(microtasks).type = "catch"
  /\ microtasks' = Append(Tail(microtasks), Job("finally", Head(microtasks).n))
  /\ ret' = NoReturn
  /\ turn' = ReactionTurn
  /\ UNCHANGED <<maxBatchSize, synced, cache, pendingRequests, isScheduled, inFlightRequests,
                 promises, execs>>

\* the reaction jobs of a settled promise whose callers are not the hook
CatchReaction == CatchHandler /\ UNCHANGED hookVars

\* mutant: the cleanup deletes nothing
InFlightKeep(itemId) == inFlightRequests

\* this.inFlightRequests.delete(itemId)
InFlightDelete(itemId) == [inFlightRequests EXCEPT ![itemId] = NoPromise]

\* .finally(() => { this.inFlightRequests.delete(itemId) })
FinallyReaction ==
  /\ ret = NoReturn
  /\ microtasks # <<>>
  /\ Head(microtasks).type = "finally"
  /\ inFlightRequests' = InFlightDelete(ItemIdOf(Head(microtasks).n))
  /\ microtasks' = Tail(microtasks)
  /\ promises' = [promises EXCEPT ![Head(microtasks).n] = Clean(@)]
  /\ execs' = Collect(execs, promises')
  /\ ret' = NoReturn
  /\ turn' = EndTurn
  /\ UNCHANGED <<hookVars, maxBatchSize, synced, cache, pendingRequests, isScheduled>>

----------------------------------------------------------------------------
(* useDismissibleItem: fetchItem and the localStorage entry of its item *)

\* fetchItem is called at most this many times in one behaviour
MaxFetch == 3

\* Date.now() advances at most this far
MaxNow == 2

\* the itemId the hook is mounted with
HookItemId == "a"

\* the cacheExpiration options: absent, or a number of milliseconds
CacheExpirations == {Undefined, 0, 1}

\* what an earlier page load may have left under the key of itemId
StoredEntries(itemId) ==
  {NoEntry} \cup {[data |-> item, timestamp |-> 0] : item \in {i \in Items : i.itemId = itemId}}

\* cacheExpiration && Date.now() - timestamp > cacheExpiration
Expired(entry, cacheExpiration, t) ==
  /\ cacheExpiration # Undefined
  /\ cacheExpiration # 0
  /\ t - entry.timestamp > cacheExpiration

\* getCachedItem: the data of the entry, null (NoItem) if there is none or it
\* has expired
GetCachedItem(entry, cacheExpiration, t) ==
  IF entry = NoEntry THEN NoItem
  ELSE IF Expired(entry, cacheExpiration, t) THEN NoItem
  ELSE entry.data

\* getCachedItem removes an expired entry
StorageAfterGet(entry, cacheExpiration, t) ==
  IF entry # NoEntry /\ Expired(entry, cacheExpiration, t) THEN NoEntry ELSE entry

\* mutant: nothing is stored
SetCachedNothing(item, t) == NoEntry

\* setCachedItem: { data: item, timestamp: Date.now() }
SetCachedItem(item, t) == [data |-> item, timestamp |-> t]

\* mutant: any durable entry is trusted
DismissedOrNot(item) == item # NoItem

\* cachedItem?.dismissedAt
Dismissed(item) == item # NoItem /\ item.val = 2

\* the entry under the key the hook h reads and writes
HookKey(h) == StorageKey(h.cachePrefix, h.itemId)

\* the code of fetchItem up to the call of batchScheduler.getItem, for the
\* props and state h of the hook and the localStorage contents store
FetchItemFrom(h, store) ==
  LET cachedItem == IF h.enableCache
                    THEN GetCachedItem(store[HookKey(h)], h.cacheExpiration, now)
                    ELSE NoItem
      ctl == h.calls + 1
  IN
  /\ h.calls < MaxFetch
  /\ localStorage' = IF h.enableCache
                     THEN [store EXCEPT ![HookKey(h)] =
                             StorageAfterGet(@, h.cacheExpiration, now)]
                     ELSE store
  /\ now' = now
  /\ IF h.enableCache /\ Dismissed(cachedItem)
     THEN \* primeCache(cachedItem); setItem(cachedItem); setIsLoading(false); return
          /\ PrimeCacheCall(cachedItem)
          /\ hook' = [h EXCEPT !.item = cachedItem, !.isLoading = FALSE,
                               !.calls = ctl, !.last = "durable"]
     ELSE \* abort the previous controller, setIsLoading(true), getItem(itemId)
          /\ GetItemCall(h.itemId)
          /\ hook' = [h EXCEPT
                        !.aborted = IF h.controller = 0 THEN @
                                    ELSE @ \cup {h.controller},
                        !.controller = ctl, !.isLoading = TRUE, !.error = "",
                        !.calls = ctl, !.last = "scheduler"]

\* fetchItem called by an effect of the hook
FetchItem == FetchItemFrom(hook, localStorage)

\* `await` on what getItem returned: the call is suspended; if the promise is
\* settled already, the job that resumes it is queued at once
FetchItemAwaits ==
  /\ ret # NoReturn
  /\ LET cached == ret.kind = "cached"
         a == [ctl   |-> hook.controller,
               itemId |-> hook.itemId,
               enableCache |-> hook.enableCache,
               cachePrefix |-> hook.cachePrefix,
               p     |-> ret.p,
               state |-> IF cached THEN "fulfilled" ELSE promises[ret.p].state,
               item  |-> IF cached THEN ret.item ELSE promises[ret.p].value,
               error |-> IF cached THEN "" ELSE promises[ret.p].error]
     IN /\ hook' = [hook EXCEPT !.awaits = Append(@, a)]
        /\ microtasks' = IF a.state = "pending" THEN microtasks
                         ELSE Append(microtasks, Job("resume", a.ctl))
  /\ ret' = NoReturn
  /\ UNCHANGED <<maxBatchSize, synced, cache, pendingRequests, isScheduled,
                 inFlightRequests, promises, execs, turn, localStorage, now>>

\* mutant: a resumed call returns without touching the state, aborted or not
ContinueAsAborted(st, a) == st

\* the rest of fetchItem, for the suspended call a: nothing if its controller
\* was aborted; setItem(data) and setCachedItem, or setError(err); finally
\* setIsLoading(false). itemId, enableCache and cachePrefix are those of the
\* render that created the callback
Continue(st, a) ==
  IF a.ctl \in st.hook.aborted THEN st
  ELSE IF a.state = "fulfilled"
  THEN [hook  |-> [st.hook EXCEPT !.item = a.item, !.isLoading = FALSE],
        store |-> IF a.enableCache
                  THEN [st.store EXCEPT ![StorageKey(a.cachePrefix, a.itemId)] =
                          SetCachedItem(a.item, now)]
                  ELSE st.store]
  ELSE [hook  |-> [st.hook EXCEPT !.error = a.error, !.isLoading = FALSE],
        store |-> st.store]

RECURSIVE ContinueAll(_, _)
\* the suspended calls `as` resume one after the other
ContinueAll(st, as) ==
  IF as = <<>> THEN st ELSE ContinueAll(Continue(st, Head(as)), Tail(as))

\* a call that awaited a settled promise resumes
FetchItemResumes ==
  /\ ret = NoReturn
  /\ microtasks # <<>>
  /\ Head(microtasks).type = "resume"
  /\ LET due == SelectSeq(hook.awaits, LAMBDA a : a.ctl = Head(microtasks).n)
         rest == SelectSeq(hook.awaits, LAMBDA a : a.ctl # Head(microtasks).n)
         st == ContinueAll([hook |-> hook, store |-> localStorage], due)
     IN /\ hook' = [st.hook EXCEPT !.awaits = rest]
        /\ localStorage' = st.store
  /\ microtasks' = Tail(microtasks)
  /\ ret' = NoReturn
  /\ turn' = ReactionTurn
  /\ UNCHANGED <<maxBatchSize, synced, cache, pendingRequests, isScheduled,
                 inFlightRequests, promises, execs, now>>

\* the reaction jobs of a promise that has settled: the scheduler's catch
\* handler, then the calls of fetchItem that awaited it while it was pending
SettlementReaction ==
  /\ CatchHandler
  /\ LET p == Head(microtasks).n
         Waiting(a) == a.p = p /\ a.state = "pending"
         due == SelectSeq(hook.awaits, Waiting)
         rest == SelectSeq(hook.awaits, LAMBDA a : ~Waiting(a))
         outcome == [i \in DOMAIN due |->
                       [due[i] EXCEPT !.state = promises[p].state,
                                      !.item = promises[p].value,
                                      !.error = promises[p].error]]
         st == ContinueAll([hook |-> hook, store |-> localStorage], outcome)
     IN /\ hook' = [st.hook EXCEPT !.awaits = rest]
        /\ localStorage' = st.store
  /\ now' = now

\* time passes between two tasks
Tick ==
  /\ TaskMayRun
  /\ now < MaxNow
  /\ now' = now + 1
  /\ UNCHANGED <<maxBatchSize, synced, cache, pendingRequests, isScheduled,
                 inFlightRequests, promises, microtasks, execs, ret, turn,
                 localStorage, hook>>

----------------------------------------------------------------------------
(* getAuthHeaders(jwt) of auth.utils, as the provider hands it to the hook and
   to the scheduler *)

\* the tokens a jwt prop may stand for: the empty string, or a token
Tokens == {"", "tok"}

JwtProps == {NoJwt} \cup [kind : {"string", "sync", "async"}, token : Tokens]

\* what a jwt function may throw or reject with
JwtError == "JWT error"

\* resolveJwt returned undefined
NoToken == "undefined"

\* {}: no Authorization header
Unauthenticated == <<>>

\* { Authorization: `Bearer ${token}` }
Bearer(token) == <<"Authorization", "Bearer " \o token>>

\* `const result = jwt(); return await Promise.resolve(result)` for a jwt
\* function: a sync function returns its token or throws, an async one returns
\* a promise that fulfils with its token or rejects; fails says which
JwtCall(jwt, fails) ==
  IF fails THEN [status |-> "thrown", value |-> JwtError]
  ELSE [status |-> "returned", value |-> jwt.token]

\* mutant: no try / catch around the call of the jwt function
Uncaught(completion) == completion

\* try { ... } catch (error) { console.warn(...); return undefined; }
Caught(completion) ==
  IF completion.status = "thrown"
  THEN [status |-> "returned", value |-> NoToken]
  ELSE completion

\* resolveJwt(jwt)
ResolveJwt(jwt, fails) ==
  IF jwt.kind \in {"sync", "async"} THEN Caught(JwtCall(jwt, fails))
  ELSE IF jwt.kind = "string" THEN [status |-> "returned", value |-> jwt.token]
  ELSE [status |-> "returned", value |-> NoToken]

\* token ? ... : ...
Truthy(token) == token \notin {NoToken, ""}

\* getAuthHeaders(jwt): how its promise settles
GetAuthHeaders(jwt, fails) ==
  LET token == ResolveJwt(jwt, fails)
  IN IF token.status = "thrown"
     THEN [state |-> "rejected", value |-> Unauthenticated, error |-> token.value]
     ELSE [state |-> "fulfilled",
           value |-> IF Truthy(token.value) THEN Bearer(token.value)
                     ELSE Unauthenticated,
           error |-> ""]

\* executeBatch of the scheduler of the provider: its getAuthHeaders is
\* `async () => await getAuthHeaders(jwt)`, which always returns a promise
ProviderExecuteBatch == ExecuteBatchWith({})

\* the promise of the provider's getAuthHeaders settles as getAuthHeaders(jwt)
\* does
ProviderAuthSettles(e) ==
  \E fails \in BOOLEAN :
    LET headers == GetAuthHeaders(hook.jwt, fails)
    IN /\ IF headers.state = "fulfilled"
          THEN AuthResolvesWith(e, headers.value)
          ELSE AuthRejects(e, headers.error)

----------------------------------------------------------------------------
(* useDismissibleItem: its effects, dismiss and restore *)

\* dismiss or restore is called at most this many times in one behaviour
MaxMutations == 1

\* the items client.dismiss / client.restore may resolve with for itemId
ClientItems(itemId) == {item \in Items : item.itemId = itemId}

\* mutant: the catch block sets no error
NoMutationError(op, err) == ""

\* err instanceof Error ? err : new Error("Failed to dismiss item")
MutationError(op, err) ==
  IF err = NonError THEN "Failed to " \o op \o " item" ELSE err

\* setItem, setError, setIsLoading of a component that has unmounted do nothing
SetState(h, changed) == IF h.phase = "unmounted" THEN h ELSE changed

\* mutant: initialData is not looked at
NoInitialData(h) == FALSE

\* const hasInitialData = !!initialData
HasInitialData(h) == h.initialData # NoItem

\* the first run of the effects: fetchItem unless initialData is given
Mount ==
  /\ TaskMayRun
  /\ hook.phase = "rendered"
  /\ LET mounted == [hook EXCEPT !.phase = "mounted"]
     IN IF HasInitialData(hook)
        THEN /\ hook' = mounted
             /\ UNCHANGED <<maxBatchSize, synced, cache, pendingRequests, isScheduled,
                            inFlightRequests, promises, microtasks, execs, ret, turn,
                            localStorage, now>>
        ELSE FetchItemFrom(mounted, localStorage)

\* the component is rendered with another itemId: the identity effect calls
\* fetchItem, whether initialData is given or not
ChangeItemId(itemId) ==
  /\ TaskMayRun
  /\ hook.phase = "mounted"
  /\ itemId # hook.itemId
  /\ FetchItemFrom([hook EXCEPT !.itemId = itemId], localStorage)

\* removeCachedItem
RemoveCachedItem(store, key) == [store EXCEPT ![key] = NoEntry]

\* the component is rendered with other enableCache / cachePrefix options: the
\* cache-settings effect removes the entry under the previous prefix and calls
\* fetchItem
ChangeCacheSettings(enableCache, cachePrefix) ==
  /\ TaskMayRun
  /\ hook.phase = "mounted"
  /\ <<enableCache, cachePrefix>> # <<hook.enableCache, hook.cachePrefix>>
  /\ LET previous == HookKey(hook)
         removes == \/ hook.cachePrefix # cachePrefix
                    \/ ~enableCache /\ hook.enableCache
         store == IF removes THEN RemoveCachedItem(localStorage, previous)
                  ELSE localStorage
     IN FetchItemFrom([hook EXCEPT !.enableCache = enableCache,
                                   !.cachePrefix = cachePrefix], store)

\* the cleanup of the unmount effect: abortControllerRef.current?.abort()
Unmount ==
  /\ TaskMayRun
  /\ hook.phase = "mounted"
  /\ hook' = [hook EXCEPT !.phase = "unmounted",
                          !.aborted = IF hook.controller = 0 THEN @
                                      ELSE @ \cup {hook.controller}]
  /\ UNCHANGED <<maxBatchSize, synced, cache, pendingRequests, isScheduled,
                 inFlightRequests, promises, microtasks, execs, ret, turn,
                 localStorage, now>>

\* dismiss() / restore() up to `await getAuthHeaders()`: setError(undefined);
\* itemId, enableCache and cachePrefix are those of the render that created the
\* callback
Mutate(op) ==
  /\ TaskMayRun
  /\ hook.phase = "mounted"
  /\ hook.mcalls < MaxMutations
  /\ hook' = [hook EXCEPT
                !.error = "",
                !.mcalls = @ + 1,
                !.mutations = Append(@, [op |-> op, phase |-> "auth",
                                         itemId |-> hook.itemId,
                                         enableCache |-> hook.enableCache,
                                         cachePrefix |-> hook.cachePrefix,
                                         headers |-> NoHeaders])]
  /\ UNCHANGED <<maxBatchSize, synced, cache, pendingRequests, isScheduled,
                 inFlightRequests, promises, microtasks, execs, ret, turn,
                 localStorage, now>>

\* a sequence without its i-th element
Without(seq, i) == SubSeq(seq, 1, i - 1) \o SubSeq(seq, i + 1, Len(seq))

\* the catch block of dismiss / restore: setError(...); throw err
MutationFails(h, i, err) ==
  LET m == h.mutations[i]
  IN [SetState(h, [h EXCEPT !.error = MutationError(m.op, err)]) EXCEPT
        !.mutations = Without(@, i),
        !.outcome = [op |-> m.op, status |-> "rejected", data |-> NoItem,
                     thrown |-> err]]

\* the promise of getAuthHeaders() settles and the call resumes: it calls
\* client.dismiss / client.restore with the headers, or runs its catch block
MutationAfterAuth(i) ==
  /\ TaskMayRun
  /\ hook.mutations[i].phase = "auth"
  /\ \E fails \in BOOLEAN :
       LET headers == GetAuthHeaders(hook.jwt, fails)
       IN hook' = IF headers.state = "fulfilled"
                  THEN [hook EXCEPT !.mutations[i].phase = "client",
                                    !.mutations[i].headers = headers.value]
                  ELSE MutationFails(hook, i, headers.error)
  /\ UNCHANGED <<maxBatchSize, synced, cache, pendingRequests, isScheduled,
                 inFlightRequests, promises, microtasks, execs, ret, turn,
                 localStorage, now>>

\* the promise of client.dismiss / client.restore fulfils with data and the
\* call resumes: setItem(data); batchScheduler.updateCache(data);
\* if (enableCache) setCachedItem(userCacheKey, data, cachePrefix)
ClientResolves(i, data) ==
  /\ TaskMayRun
  /\ hook.mutations[i].phase = "client"
  /\ data \in ClientItems(hook.mutations[i].itemId)
  /\ LET m == hook.mutations[i]
     IN /\ UpdateCacheCall(data)
        /\ hook' = [SetState(hook, [hook EXCEPT !.item = data]) EXCEPT
                      !.mutations = Without(@, i),
                      !.outcome = [op |-> m.op, status |-> "fulfilled",
                                   data |-> data, thrown |-> ""]]
        /\ localStorage' = IF m.enableCache
                           THEN [localStorage EXCEPT
                                   ![StorageKey(m.cachePrefix, m.itemId)] =
                                     SetCachedItem(data, now)]
                           ELSE localStorage
  /\ now' = now

\* the promise of client.dismiss / client.restore rejects and the call resumes
\* in its catch block
ClientRejects(i, err) ==
  /\ TaskMayRun
  /\ hook.mutations[i].phase = "client"
  /\ hook' = MutationFails(hook, i, err)
  /\ UNCHANGED <<maxBatchSize, synced, cache, pendingRequests, isScheduled,
                 inFlightRequests, promises, microtasks, execs, ret, turn,
                 localStorage, now>>

----------------------------------------------------------------------------
(* executeBatch up to its partition loop, statement by statement, for every
   maxBatchSize the constructor accepts *)

\* the loop is followed for at most this many iterations
MaxLoop == 4

\* ids.slice(start, end): a negative index counts from the end, and both are
\* clamped to 0..length
Slice(ids, start, end) ==
  LET len == Len(ids)
      Index(k) == IF k < 0 THEN (IF len + k < 0 THEN 0 ELSE len + k) ELSE Min(k, len)
  IN IF Index(start) >= Index(end) THEN <<>>
     ELSE SubSeq(ids, Index(start) + 1, Index(end))

\* executeBatch runs as a microtask: snapshot, empty check, deduplication, and
\* `const batches = []; let i = 0`. The activation keeps its local variables
\* while it is in the loop (phase "partition": the microtask has not returned)
PartitionStart ==
  /\ ret = NoReturn
  /\ microtasks # <<>>
  /\ Head(microtasks).type = "executeBatch"
  /\ isScheduled' = FALSE
  /\ pendingRequests' = QueueAfterSnapshot(pendingRequests)
  /\ microtasks' = Tail(microtasks)
  /\ execs' = IF Snapshot(pendingRequests) = <<>> THEN execs
              ELSE Append(execs,
                          [requests |-> Snapshot(pendingRequests),
                           uniqueItemIds |-> UniqueItemIds(Snapshot(pendingRequests)),
                           phase |-> "partition", i |-> 0, batches |-> <<>>,
                           iterations |-> 0])
  /\ ret' = NoReturn
  /\ turn' = NoTurn
  /\ UNCHANGED <<hookVars, maxBatchSize, synced, cache, inFlightRequests, promises>>

\* one iteration: i < uniqueItemIds.length holds,
\* batches.push(uniqueItemIds.slice(i, i + maxBatchSize)); i += maxBatchSize
PartitionStep(e) ==
  /\ execs[e].phase = "partition"
  /\ execs[e].i < Len(execs[e].uniqueItemIds)
  /\ execs[e].iterations < MaxLoop
  /\ execs' = [execs EXCEPT
                 ![e].batches = Append(@, Slice(execs[e].uniqueItemIds, execs[e].i,
                                                execs[e].i + maxBatchSize)),
                 ![e].i = @ + maxBatchSize,
                 ![e].iterations = @ + 1]
  /\ UNCHANGED <<hookVars, maxBatchSize, synced, cache, pendingRequests, isScheduled,
                 inFlightRequests, promises, microtasks, ret, turn>>

\* i < uniqueItemIds.length fails: the loop is left and executeBatch goes on to
\* `await this.config.getAuthHeaders()`
PartitionDone(e) ==
  /\ execs[e].phase = "partition"
  /\ execs[e].i >= Len(execs[e].uniqueItemIds)
  /\ execs' = [execs EXCEPT ![e] = NewExec(execs[e].requests, execs[e].batches)]
  /\ UNCHANGED <<hookVars, maxBatchSize, synced, cache, pendingRequests, isScheduled,
                 inFlightRequests, promises, microtasks, ret, turn>>

\* a scheduler constructed with a maxBatchSize option the constructor takes as
\* it is: any number, zero and negative ones included; an absent option becomes
\* the default
PartitionInit ==
  /\ maxBatchSize \in {Constructor(size) : size \in {Undefined, 0 - 2, 0, 1, 2}}
  /\ cache = [id \in ItemIds |-> NoItem]
  /\ pendingRequests = <<>>
  /\ isScheduled = FALSE
  /\ inFlightRequests = [id \in ItemIds |-> NoPromise]
  /\ promises = <<>>
  /\ microtasks = <<>>
  /\ execs = <<>>
  /\ ret = NoReturn
  /\ turn = NoTurn
  /\ synced = [id \in ItemIds |-> NoItem]
  /\ localStorage = [key \in StorageKeys |-> NoEntry]
  /\ now = 0
  /\ hook = NoHook

\* callers enqueue requests; no caller and no other microtask runs while an
\* activation is in its loop
PartitionNext ==
  \/ /\ \A e \in DOMAIN execs : execs[e].phase # "partition"
     /\ \E itemId \in ItemIds : GetItem(itemId)
  \/ Return
  \/ PartitionStart
  \/ \E e \in DOMAIN execs : PartitionStep(e)
  \/ \E e \in DOMAIN execs : PartitionDone(e)

PartitionSpec == PartitionInit /\ [][PartitionNext]_vars

\* C35: whatever maxBatchSize the scheduler was constructed with, the partition
\* loop ends after at most one iteration per distinct id, and the chunks it
\* has then built are non-empty, hold at most maxBatchSize ids each, and
\* concatenate to the deduplicated id list (so they are disjoint and cover it)
RECURSIVE Concat(_)
Concat(seqs) == IF seqs = <<>> THEN <<>> ELSE Head(seqs) \o Concat(Tail(seqs))

C35_PartitionTerminates ==
  \A e \in DOMAIN execs :
    /\ execs[e].phase = "partition" => execs[e].iterations <= Len(execs[e].uniqueItemIds)
    /\ \A k \in DOMAIN execs[e].batches :
         /\ execs[e].batches[k] # <<>>
         /\ Len(execs[e].batches[k]) <= maxBatchSize
    /\ execs[e].phase # "partition" => Concat(execs[e].batches) = UniqueItemIds(execs[e].requests)

----------------------------------------------------------------------------
(* The durable cache keys as the strings the code builds, for hooks of any
   user and item over one localStorage *)

\* identifiers are strings of at most this many characters
MaxChars == 2

\* localStorage holds at most this many keys
MaxStores == 2

\* userId and itemId values: non-empty strings, as sequences of characters;
\* "-" is one of the characters, as in "user-1"
Strings == UNION {[1..n -> {"a", "-"}] : n \in 1..MaxChars}

\* `${userId}-${itemId}`
UserCacheKey(userId, itemId) == userId \o <<"-">> \o itemId

\* `${cachePrefix}_${id}`, the prefix being one fixed string
CacheKey(cachePrefix, id) == <<cachePrefix, "_">> \o id

\* the item the service holds for a user and an item id
UserItem(userId, itemId, dismissed) ==
  [userId |-> userId, itemId |-> itemId, dismissed |-> dismissed]

\* no hook is mounted
NoUser ==
  [mounted |-> FALSE, userId |-> <<>>, itemId |-> <<>>, item |-> NoItem,
   last |-> "none"]                  \* the last operation: none, mount, fetch, mutate

\* the key of the mounted hook, with the default cachePrefix
MountedKey == CacheKey(DefaultCachePrefix, UserCacheKey(hook.userId, hook.itemId))

\* localStorage.setItem(key, JSON.stringify({data, timestamp}))
Stored(key, item) ==
  [k \in DOMAIN localStorage \cup {key} |->
     IF k = key THEN SetCachedItem(item, now) ELSE localStorage[k]]

schedulerVars == <<maxBatchSize, cache, pendingRequests, isScheduled, inFlightRequests,
                   promises, microtasks, execs, ret, turn, synced>>

\* a provider with userId renders a hook for itemId: the useState initialiser
\* takes the durable entry under the hook's key as the item (getCachedItem:
\* null when localStorage has no such key)
KeyMount(userId, itemId) ==
  /\ ~hook.mounted
  /\ LET key == CacheKey(DefaultCachePrefix, UserCacheKey(userId, itemId))
     IN hook' = [mounted |-> TRUE, userId |-> userId, itemId |-> itemId,
                 item |-> IF key \in DOMAIN localStorage
                          THEN localStorage[key].data ELSE NoItem,
                 last |-> "mount"]
  /\ UNCHANGED <<localStorage, now>>
  /\ UNCHANGED schedulerVars

\* the lookup of a hook that found no durable entry completes with the
\* service's item of its user and id: setItem, then setCachedItem
KeyFetched(dismissed) ==
  /\ hook.mounted
  /\ hook.item = NoItem
  /\ Cardinality(DOMAIN localStorage \cup {MountedKey}) <= MaxStores
  /\ localStorage' = Stored(MountedKey, UserItem(hook.userId, hook.itemId, dismissed))
  /\ hook' = [hook EXCEPT !.item = UserItem(hook.userId, hook.itemId, dismissed),
                          !.last = "fetch"]
  /\ UNCHANGED now
  /\ UNCHANGED schedulerVars

\* dismiss() or restore() succeeds: the service's updated item of the hook's
\* user and id is written through
KeyMutated ==
  /\ hook.mounted
  /\ hook.item # NoItem
  /\ Cardinality(DOMAIN localStorage \cup {MountedKey}) <= MaxStores
  /\ LET updated == UserItem(hook.userId, hook.itemId, ~hook.item.dismissed)
     IN /\ localStorage' = Stored(MountedKey, updated)
        /\ hook' = [hook EXCEPT !.item = updated, !.last = "mutate"]
  /\ UNCHANGED now
  /\ UNCHANGED schedulerVars

\* the hook unmounts
KeyUnmount ==
  /\ hook.mounted
  /\ hook' = NoUser
  /\ UNCHANGED <<localStorage, now>>
  /\ UNCHANGED schedulerVars

KeyInit ==
  /\ SchedulerInit
  /\ localStorage = <<>>
  /\ now = 0
  /\ hook = NoUser

KeyNext ==
  \/ \E userId \in Strings, itemId \in Strings : KeyMount(userId, itemId)
  \/ \E dismissed \in BOOLEAN : KeyFetched(dismissed)
  \/ KeyMutated
  \/ KeyUnmount

KeySpec == KeyInit /\ [][KeyNext]_vars

\* C38: with one cachePrefix, different (userId, itemId) pairs have different
\* durable keys, and the item a hook takes from the durable cache is the item
\* of its own user and item id
C38_KeysIsolateUsers ==
  /\ \A u1 \in Strings, i1 \in Strings, u2 \in Strings, i2 \in Strings :
       <<u1, i1>> # <<u2, i2>> =>
         CacheKey(DefaultCachePrefix, UserCacheKey(u1, i1))
           # CacheKey(DefaultCachePrefix, UserCacheKey(u2, i2))
  /\ hook.mounted /\ hook.item # NoItem =>
       hook.item.userId = hook.userId /\ hook.item.itemId = hook.itemId

----------------------------------------------------------------------------
(* The Dismissible component over useDismissibleItem: what it renders, its
   isDismissing state and handleDismiss *)

\* the dismiss button is clicked at most this many times in one behaviour
MaxClicks == 2

\* the component rendered for HookItemId with default components, after its
\* first effects: isDismissing is false and the hook's first lookup is under
\* way. dismisses holds the calls of handleDismiss suspended at `await
\* dismiss()`; moved says that itemId has changed since the click
NoComponent ==
  [itemId |-> HookItemId, ignoreErrors |-> FALSE,
   isLoading |-> TRUE, error |-> "", dismissedOn |-> FALSE,
   isDismissing |-> FALSE, onDismiss |-> 0, clicks |-> 0,
   dismisses |-> <<>>, last |-> "mount"]

\* what the component returns: LoadingComponent, ErrorComponent, null, or the
\* children with the dismiss button
View(c) ==
  IF c.isLoading THEN "loading"
  ELSE IF c.error # "" /\ ~c.ignoreErrors THEN "error"
  ELSE IF c.dismissedOn \/ c.isDismissing THEN "hidden"
  ELSE "content"

\* a promise dismiss() returned has settled and handleDismiss has not resumed
\* yet: its continuation is the next job to run
SettledDismisses == {i \in DOMAIN hook.dismisses : hook.dismisses[i].state # "pending"}

\* the hook's lookup completes: setItem(data), or setError(err); then
\* setIsLoading(false)
LookupCompletes(dismissed, failed) ==
  /\ SettledDismisses = {}
  /\ hook.isLoading
  /\ hook' = [hook EXCEPT !.isLoading = FALSE,
                          !.dismissedOn = IF failed THEN @ ELSE dismissed,
                          !.error = IF failed THEN ApiError ELSE @,
                          !.last = "lookup"]
  /\ UNCHANGED <<localStorage, now>>
  /\ UNCHANGED schedulerVars

\* the dismiss button is clicked: handleDismiss runs setIsDismissing(true) and
\* calls dismiss(), which runs setError(undefined) and suspends
Click ==
  /\ SettledDismisses = {}
  /\ View(hook) = "content"
  /\ hook.clicks < MaxClicks
  /\ hook' = [hook EXCEPT !.isDismissing = TRUE,
                          !.error = "",
                          !.clicks = @ + 1,
                          !.dismisses = Append(@, [itemId |-> hook.itemId,
                                                   state |-> "pending",
                                                   moved |-> FALSE]),
                          !.last = "click"]
  /\ UNCHANGED <<localStorage, now>>
  /\ UNCHANGED schedulerVars

\* the client's call of the i-th dismiss() settles and dismiss() resumes:
\* setItem(data) and the promise fulfils, or setError(...); throw err
DismissSettles(i, ok) ==
  /\ SettledDismisses = {}
  /\ hook.dismisses[i].state = "pending"
  /\ hook' = [hook EXCEPT
                !.dismissedOn = IF ok THEN TRUE ELSE @,
                !.error = IF ok THEN @ ELSE "Failed to dismiss item",
                !.dismisses[i].state = IF ok THEN "fulfilled" ELSE "rejected",
                !.last = "settle"]
  /\ UNCHANGED <<localStorage, now>>
  /\ UNCHANGED schedulerVars

\* handleDismiss resumes after `await dismiss()`: onDismiss?.(), or the catch
\* block with setIsDismissing(false)
HandleDismissResumes(i) ==
  /\ i \in SettledDismisses
  /\ hook' = [hook EXCEPT
                !.onDismiss = IF hook.dismisses[i].state = "fulfilled" THEN @ + 1 ELSE @,
                !.isDismissing = IF hook.dismisses[i].state = "rejected" THEN FALSE ELSE @,
                !.dismisses = Without(@, i),
                !.last = IF hook.dismisses[i].moved THEN "late " ELSE ""
                         \o hook.dismisses[i].state]
  /\ UNCHANGED <<localStorage, now>>
  /\ UNCHANGED schedulerVars

\* the component is rendered with another itemId: the effect runs
\* setIsDismissing(false); the hook's identity effect calls fetchItem, which
\* returns a dismissed item of the durable cache or starts a lookup
ComponentChangeItemId(itemId, durable) ==
  /\ SettledDismisses = {}
  /\ itemId # hook.itemId
  /\ hook' = [hook EXCEPT
                !.itemId = itemId,
                !.isDismissing = FALSE,
                !.isLoading = ~durable,
                !.dismissedOn = IF durable THEN TRUE ELSE @,
                !.error = IF durable THEN @ ELSE "",
                !.dismisses = [i \in DOMAIN @ |-> [@[i] EXCEPT !.moved = TRUE]],
                !.last = "itemId"]
  /\ UNCHANGED <<localStorage, now>>
  /\ UNCHANGED schedulerVars

ComponentInit ==
  /\ SchedulerInit
  /\ localStorage = [key \in StorageKeys |-> NoEntry]
  /\ now = 0
  /\ \E ignoreErrors \in BOOLEAN : hook = [NoComponent EXCEPT !.ignoreErrors = ignoreErrors]

ComponentNext ==
  \/ \E dismissed \in BOOLEAN, failed \in BOOLEAN : LookupCompletes(dismissed, failed)
  \/ Click
  \/ \E i \in DOMAIN hook.dismisses, ok \in BOOLEAN : DismissSettles(i, ok)
  \/ \E i \in DOMAIN hook.dismisses : HandleDismissResumes(i)
  \/ \E itemId \in ItemIds, durable \in BOOLEAN : ComponentChangeItemId(itemId, durable)

ComponentSpec == ComponentInit /\ [][ComponentNext]_vars

\* handleDismiss resumes in this step, after dismiss() settled as state says
Resumes(i, state) ==
  /\ i \in SettledDismisses
  /\ hook.dismisses[i].state = state
  /\ Len(hook'.dismisses) < Len(hook.dismisses)

\* C31: after a click the content is hidden while dismiss() is pending and
\* itemId is unchanged; when dismiss() rejects, isDismissing is reset, onDismiss
\* is not called and (itemId unchanged) the content is shown again; when it
\* resolves, onDismiss is called once; a change of itemId resets isDismissing
C31_DismissingState ==
  [][/\ \A i \in DOMAIN hook.dismisses :
          hook.dismisses[i].state = "pending" /\ ~hook.dismisses[i].moved
            => hook.isDismissing /\ View(hook) # "content"
     /\ \A i \in DOMAIN hook.dismisses :
          Resumes(i, "rejected") =>
            /\ ~hook'.isDismissing
            /\ hook'.onDismiss = hook.onDismiss
            /\ ~hook.dismisses[i].moved => View(hook') = "content"
     /\ \A i \in DOMAIN hook.dismisses :
          Resumes(i, "fulfilled") => hook'.onDismiss = hook.onDismiss + 1
     /\ hook'.onDismiss # hook.onDismiss =>
          \E i \in DOMAIN hook.dismisses : Resumes(i, "fulfilled")
     /\ hook'.itemId # hook.itemId => ~hook'.isDismissing
    ]_vars

----------------------------------------------------------------------------
(* The specification *)

Next ==
  \/ \E itemId \in ItemIds : GetItem(itemId)
  \/ Return
  \/ \E item \in CallerItems : PrimeCache(item)
  \/ \E item \in CallerItems : UpdateCache(item)
  \/ ClearCache
  \/ ExecuteBatch
  \/ \E e \in DOMAIN execs : AuthResolves(e)
  \/ \E e \in DOMAIN execs, error \in {AuthError, NonError} : AuthRejects(e, error)
  \/ AfterAuth
  \/ \E e \in DOMAIN execs : \E k \in DOMAIN execs[e].batches :
       \E response \in Responses(execs[e].batches[k]) : ChunkResolves(e, k, response)
  \/ \E e \in DOMAIN execs : \E k \in DOMAIN execs[e].batches :
       \E error \in {ApiError, NonError} :
       ChunkRejects(e, k, error)
  \/ AfterAll
  \/ CatchReaction
  \/ FinallyReaction

Spec == Init /\ [][Next]_vars

\* the hook mounted for HookItemId on a new scheduler: the useState initialiser
\* has read the localStorage entry
HookInit ==
  /\ SchedulerInit
  /\ now = 0
  /\ \E entry \in StoredEntries(HookItemId), enableCache \in BOOLEAN,
        cacheExpiration \in CacheExpirations :
       /\ localStorage =
            [key \in StorageKeys |->
               IF key # StorageKey(DefaultCachePrefix, HookItemId) THEN NoEntry
               ELSE IF enableCache THEN StorageAfterGet(entry, cacheExpiration, 0)
               ELSE entry]
       /\ hook = [NoHook EXCEPT
                    !.enableCache = enableCache,
                    !.cacheExpiration = cacheExpiration,
                    !.item = IF enableCache
                             THEN GetCachedItem(entry, cacheExpiration, 0)
                             ELSE NoItem]

\* the scheduler with the hook as its only caller
HookNext ==
  \/ FetchItem
  \/ FetchItemAwaits
  \/ FetchItemResumes
  \/ SettlementReaction
  \/ Tick
  \/ ExecuteBatch
  \/ \E e \in DOMAIN execs : AuthResolves(e)
  \/ \E e \in DOMAIN execs, error \in {AuthError, NonError} : AuthRejects(e, error)
  \/ AfterAuth
  \/ \E e \in DOMAIN execs : \E k \in DOMAIN execs[e].batches :
       \E response \in Responses(execs[e].batches[k]) : ChunkResolves(e, k, response)
  \/ \E e \in DOMAIN execs : \E k \in DOMAIN execs[e].batches :
       \E error \in {ApiError, NonError} :
       ChunkRejects(e, k, error)
  \/ AfterAll
  \/ FinallyReaction

HookSpec == HookInit /\ [][HookNext]_vars

\* the arrays batchGetOrCreate resolves with when the server keeps the
\* fetch-or-create contract: the server's item for every requested id
ContractResponses(itemIds) == {[i \in DOMAIN itemIds |-> ServerItem(itemIds[i])]}

\* the first render of the hook for HookItemId under a provider with a new
\* scheduler (no maxBatchSize is passed): the useState initialiser returns
\* initialData or else the localStorage entry; no effect has run yet. The jwt
\* prop, the initialData option and the entry an earlier page load left for the
\* other item are drawn from the sets given
ControllerInit(jwts, initialDatas, otherEntries) ==
  /\ SchedulerInit
  /\ maxBatchSize = DefaultMaxBatchSize
  /\ now = 0
  /\ \E entry \in StoredEntries(HookItemId), other \in otherEntries,
        enableCache \in BOOLEAN, initialData \in initialDatas, jwt \in jwts :
       /\ localStorage =
            [key \in StorageKeys |->
               IF key = StorageKey(DefaultCachePrefix, HookItemId) THEN entry
               ELSE IF key[1] = DefaultCachePrefix THEN other
               ELSE NoEntry]
       /\ hook = [NoHook EXCEPT
                    !.phase = "rendered",
                    !.enableCache = enableCache,
                    !.initialData = initialData,
                    !.jwt = jwt,
                    !.item = IF initialData # NoItem THEN initialData
                             ELSE IF enableCache
                             THEN GetCachedItem(entry, Undefined, 0)
                             ELSE NoItem]

\* the scheduler of the provider, with a server that keeps its contract or
\* fails
ProviderNext ==
  \/ FetchItemAwaits
  \/ FetchItemResumes
  \/ SettlementReaction
  \/ ProviderExecuteBatch
  \/ \E e \in DOMAIN execs : ProviderAuthSettles(e)
  \/ AfterAuth
  \/ \E e \in DOMAIN execs : \E k \in DOMAIN execs[e].batches :
       \E response \in ContractResponses(execs[e].batches[k]) :
         ChunkResolves(e, k, response)
  \/ \E e \in DOMAIN execs : \E k \in DOMAIN execs[e].batches :
       \E error \in {ApiError, NonError} :
       ChunkRejects(e, k, error)
  \/ AfterAll
  \/ FinallyReaction

\* the other item: the one the component is rendered with after HookItemId
OtherItemId == CHOOSE itemId \in ItemIds : itemId # HookItemId

\* the hook in a component that mounts with or without initialData, is rendered
\* with another itemId, and unmounts
IdentityInit ==
  ControllerInit({NoJwt}, {NoItem, [itemId |-> HookItemId, val |-> 1]},
                 StoredEntries(OtherItemId))

IdentityNext ==
  \/ Mount
  \/ \E itemId \in ItemIds : ChangeItemId(itemId)
  \/ Unmount
  \/ ProviderNext

IdentitySpec == IdentityInit /\ [][IdentityNext]_vars

\* the hook in a component that mounts, dismisses or restores, and is rendered
\* with other cache settings, under a provider with or without a jwt function
MutationInit ==
  ControllerInit({NoJwt, [kind |-> "async", token |-> "tok"]}, {NoItem}, {NoEntry})

MutationNext ==
  \/ Mount
  \/ \E enableCache \in BOOLEAN, cachePrefix \in CachePrefixes :
       ChangeCacheSettings(enableCache, cachePrefix)
  \/ \E op \in {"dismiss", "restore"} : Mutate(op)
  \/ \E i \in DOMAIN hook.mutations : MutationAfterAuth(i)
  \/ \E i \in DOMAIN hook.mutations, data \in Items : ClientResolves(i, data)
  \/ \E i \in DOMAIN hook.mutations, err \in {ApiError, NonError} : ClientRejects(i, err)
  \/ ProviderNext

MutationSpec == MutationInit /\ [][MutationNext]_vars

\* the hook in a component that mounts, is rendered with another itemId or
\* other cache settings while lookups are under way, and unmounts
LoadingNext ==
  \/ Mount
  \/ \E itemId \in ItemIds : ChangeItemId(itemId)
  \/ \E enableCache \in BOOLEAN, cachePrefix \in CachePrefixes :
       ChangeCacheSettings(enableCache, cachePrefix)
  \/ Unmount
  \/ ProviderNext

----------------------------------------------------------------------------
(* Properties *)

Ceil(n, m) == (n + m - 1) \div m

\* the k-th chunk of ids cut into consecutive pieces of at most m
ChunkOf(ids, k, m) == SubSeq(ids, (k - 1) * m + 1, Min(k * m, Len(ids)))

\* the ids of the requests an activation captured, in queue order
RequestedIds(ex) == [i \in DOMAIN ex.requests |-> promises[ex.requests[i]].itemId]

\* the bulk calls of an activation have been issued
Issued(ex) == ex.batches # <<>> /\ \A k \in DOMAIN ex.chunks : ex.chunks[k] # "none"

\* a request for x is unsettled
Outstanding(x) ==
  \E p \in DOMAIN promises : promises[p].itemId = x /\ promises[p].state = "pending"

\* this step is a getItem(x) call returning
GetItemReturns(x) == ret = NoReturn /\ ret' # NoReturn /\ ret'.itemId = x

\* the bulk calls that carry x and have not returned
OutstandingCalls(x) ==
  {c \in (DOMAIN execs) \X (1..MaxReq) :
     /\ c[2] \in DOMAIN execs[c[1]].chunks
     /\ execs[c[1]].chunks[c[2]] = "out"
     /\ x \in Range(execs[c[1]].batches[c[2]])}

\* C1 as stated: N new ids requested in one turn always lead to exactly
\* ceil(N / maxBatchSize) bulk calls, each carrying a chunk of the ids, once the
\* deferred executeBatch has run and is past its await of the auth headers.
C1_AsStated ==
  \A e \in DOMAIN execs :
    LET ex == execs[e]
        n == Len(ex.turnIds)
    IN (ex.sole /\ n > 0 /\ ex.phase \in {"calls", "allSettled", "done"}) =>
         /\ Len(ex.batches) = Ceil(n, maxBatchSize)
         /\ \A k \in DOMAIN ex.batches :
              /\ ex.batches[k] = ChunkOf(ex.turnIds, k, maxBatchSize)
              /\ ex.chunks[k] # "none"

\* C1: the ids of the requests an activation captured are cut into
\* ceil(N / maxBatchSize) consecutive chunks of at most maxBatchSize ids; when one
\* turn alone filled the queue these are the N ids that turn requested, in order;
\* one bulk call per chunk is issued once getAuthHeaders has fulfilled, and none
\* is issued before that or when getAuthHeaders fails. The partition loop yields
\* these chunks for every number of ids and every maxBatchSize (3 ids, size 2:
\* [1, 2] then [3]); this part does not depend on the state and is evaluated
\* where no request has been made yet.
C1_Coalescing ==
  /\ promises = <<>> =>
       /\ \A n \in 1..MaxIds : \A size \in 1..MaxIds \cup {DefaultMaxBatchSize} :
            LET ids == [i \in 1..n |-> i]
                batches == Batches(ids, size)
            IN /\ Len(batches) = Ceil(n, size)
               /\ \A k \in DOMAIN batches : batches[k] = ChunkOf(ids, k, size)
       /\ Batches(<<1, 2, 3>>, 2) = <<(<<1, 2>>), (<<3>>)>>
       /\ Batches(<<1, 2, 3>>, DefaultMaxBatchSize) = << <<1, 2, 3>> >>
  /\ \A e \in DOMAIN execs :
       LET ex == execs[e]
           ids == RequestedIds(ex)
           n == Len(ids)
       IN n > 0 =>
            /\ ex.sole => ids = ex.turnIds
            /\ Len(ex.batches) = Ceil(n, maxBatchSize)
            /\ \A k \in DOMAIN ex.batches :
                 /\ ex.batches[k] = ChunkOf(ids, k, maxBatchSize)
                 /\ Len(ex.batches[k]) \in 1..maxBatchSize
            /\ DOMAIN ex.chunks = DOMAIN ex.batches
            /\ (ex.auth = "resolved" /\ ex.phase # "authSettled") => Issued(ex)
            /\ (ex.auth # "resolved" \/ ex.phase = "authSettled") =>
                 \A k \in DOMAIN ex.chunks : ex.chunks[k] = "none"

\* one turn requested two ids, maxBatchSize is 1, and the two calls are out
C1_Witness ==
  \E e \in DOMAIN execs :
    /\ execs[e].sole
    /\ Len(execs[e].turnIds) = 2
    /\ maxBatchSize = 1
    /\ execs[e].phase = "calls"
    /\ execs[e].chunks = <<"out", "out">>

\* C2: a getItem for an id the running turn has already requested returns the
\* promise of that earlier request; no id occurs twice in the payloads of an
\* activation; and the requests of one id in a snapshot end in the same outcome.
C2_Deduplication ==
  /\ (ret # NoReturn /\ ret.kind # "cached") =>
       \A i \in DOMAIN turn.made :
         promises[turn.made[i]].itemId = ret.itemId => ret.p = turn.made[i]
  /\ \A e \in DOMAIN execs :
       LET payload == Flat(execs[e].batches)
           requests == execs[e].requests
       IN /\ \A i, j \in DOMAIN payload : payload[i] = payload[j] => i = j
          /\ Range(payload) = {promises[requests[i]].itemId : i \in DOMAIN requests}
          /\ \A i, j \in DOMAIN requests :
               promises[requests[i]].itemId = promises[requests[j]].itemId =>
                 /\ promises[requests[i]].state = promises[requests[j]].state
                 /\ promises[requests[i]].value = promises[requests[j]].value
                 /\ promises[requests[i]].error = promises[requests[j]].error

\* the running turn asks again for an id it has requested, and gets its promise
C2_Witness ==
  /\ ret.kind = "inflight"
  /\ ret.p \in Range(turn.made)
  /\ Len(turn.made) = 2

\* C3 as stated: whenever a request for X is unsettled, getItem(X) returns the
\* promise of that request and queues and schedules nothing.
C3_AsStated ==
  [][\A x \in ItemIds :
       (Outstanding(x) /\ GetItemReturns(x)) =>
         /\ ret'.p \in DOMAIN promises
         /\ promises[ret'.p].itemId = x
         /\ promises[ret'.p].state = "pending"
         /\ UNCHANGED <<pendingRequests, isScheduled, microtasks, execs>>]_vars

\* C3: whenever a request for X is unsettled and X has no cache entry,
\* getItem(X) returns the promise of that request and queues and schedules
\* nothing; when X has a cache entry it returns the cached item instead.
C3_InFlightSharing ==
  [][\A x \in ItemIds :
       (Outstanding(x) /\ GetItemReturns(x)) =>
         /\ cache[x] = NoItem =>
              /\ ret'.p \in DOMAIN promises
              /\ promises[ret'.p].itemId = x
              /\ promises[ret'.p].state = "pending"
         /\ cache[x] # NoItem => ret'.p = NoPromise /\ ret'.item = cache[x]
         /\ UNCHANGED <<pendingRequests, isScheduled, microtasks, execs,
                        promises, inFlightRequests, cache>>]_vars

\* getItem has returned the promise of a request whose bulk call is out
C3_Witness ==
  /\ ret.kind = "inflight"
  /\ promises[ret.p].state = "pending"
  /\ OutstandingCalls(ret.itemId) # {}

C5_CacheShortCircuit ==
  [][/\ \A x \in ItemIds :
          (cache[x] # NoItem /\ GetItemReturns(x)) =>
            /\ ret'.kind = "cached"
            /\ ret'.item = cache[x]
            /\ ret'.item.itemId = x
            /\ UNCHANGED <<cache, pendingRequests, isScheduled, microtasks, execs,
                           promises, inFlightRequests>>
     /\ (\E x \in ItemIds : cache[x] # NoItem /\ cache'[x] = NoItem) =>
          /\ \A x \in ItemIds : cache'[x] = NoItem
          /\ UNCHANGED <<pendingRequests, isScheduled, microtasks, execs,
                         promises, inFlightRequests>>]_vars

\* getItem has returned the entry a bulk fetch wrote, while no call is out
C5_Witness ==
  /\ ret.kind = "cached"
  /\ ret.itemId = "b"
  /\ ret.item = ServerItem("b")
  /\ pendingRequests = <<>>
  /\ \A x \in ItemIds : OutstandingCalls(x) = {}

\* C6: once a chunk's call of an activation has rejected, no request of that
\* activation is resolved, and when the activation is over every one of its
\* requests, in every chunk, has been rejected with one and the same error.
C6_UniformBatchFailure ==
  \A e \in DOMAIN execs :
    LET ex == execs[e]
    IN (\E k \in DOMAIN ex.chunks : ex.chunks[k] = "fail") =>
         /\ \A p \in Range(ex.requests) :
              promises[p].state # "fulfilled" /\ promises[p].resolveCalls = 0
         /\ ex.phase = "done" =>
              /\ ex.error \in {ApiError, BatchRequestFailed}
              /\ \A p \in Range(ex.requests) :
                   /\ promises[p].state = "rejected"
                   /\ ~promises[p].cleaned => promises[p].error = ex.error

\* the first of two chunks failed, the second has not: both requests are
\* rejected with the same error
C6_Witness ==
  \E e \in DOMAIN execs :
    /\ execs[e].phase = "done"
    /\ Len(execs[e].chunks) = 2
    /\ execs[e].chunks[1] = "fail"
    /\ execs[e].chunks[2] # "fail"
    /\ \A p \in Range(execs[e].requests) :
         promises[p].state = "rejected" /\ promises[p].error = ApiError

\* C7: when every chunk's call has fulfilled with items, the step that settles
\* the activation rejects each request whose id is absent from the combined
\* response with "Item <id> not found in batch response", and resolves each
\* request whose id is present with the item of that id.
C7_MissingItemIsolation ==
  [][\A e \in DOMAIN execs :
       LET ex == execs[e]
           allItems == Flat(ex.resp)
           present == {allItems[i].itemId : i \in DOMAIN allItems}
       IN (/\ ex.phase = "allSettled"
           /\ ex.error = NoError
           /\ Malformed \notin Range(allItems)
           /\ execs'[e].phase = "done") =>
            \A p \in Range(ex.requests) :
              IF promises[p].itemId \in present
              THEN /\ promises'[p].state = "fulfilled"
                   /\ promises'[p].value \in Range(allItems)
                   /\ promises'[p].value.itemId = promises[p].itemId
              ELSE /\ promises'[p].state = "rejected"
                   /\ promises'[p].error =
                        "Item " \o promises[p].itemId \o " not found in batch response"]_vars

\* one activation asked for a and b and the response held only a
C7_Witness ==
  \E e \in DOMAIN execs :
    \E p, q \in Range(execs[e].requests) :
      /\ promises[p].state = "fulfilled"
      /\ promises[p].value = ServerItem("a")
      /\ promises[q].state = "rejected"
      /\ promises[q].error = "Item b not found in batch response"

\* C8: the resolve and reject callbacks of a request are called at most once
\* between them; a settled request has had exactly one call, of the callback
\* matching its state; every request of an activation that is over is settled;
\* a fulfilled promise carries an item of its own id and a rejected one an
\* error message.
C8_ExactlyOnceSettlement ==
  /\ \A p \in DOMAIN promises :
       LET pr == promises[p]
       IN /\ pr.resolveCalls + pr.rejectCalls <= 1
          /\ pr.state = "pending" <=> pr.resolveCalls + pr.rejectCalls = 0
          /\ pr.state = "fulfilled" =>
               /\ pr.resolveCalls = 1
               /\ ~pr.cleaned => pr.value # NoItem /\ pr.value.itemId = pr.itemId
          /\ pr.state = "rejected" =>
               /\ pr.rejectCalls = 1
               /\ ~pr.cleaned => pr.error # ""
  /\ \A e \in DOMAIN execs :
       execs[e].phase = "done" =>
         \A p \in Range(execs[e].requests) : promises[p].state # "pending"

\* one activation has resolved a request and rejected another
C8_Witness ==
  \E e \in DOMAIN execs :
    /\ execs[e].phase = "done"
    /\ \E p, q \in Range(execs[e].requests) :
         /\ promises[p].resolveCalls = 1 /\ promises[p].rejectCalls = 0
         /\ promises[q].rejectCalls = 1 /\ promises[q].resolveCalls = 0

Holders(p) == {e \in DOMAIN execs : p \in Range(execs[e].requests)}

Deferrals == {i \in DOMAIN microtasks : microtasks[i].type = "executeBatch"}

\* C12: at most one deferred executeBatch is queued, however many requests
\* wait in the queue, and isScheduled is set exactly while one is queued; so a
\* further one is queued only once the earlier one has begun.
C12_SingleDeferral ==
  /\ Cardinality(Deferrals) <= 1
  /\ isScheduled <=> Deferrals # {}

\* two requests wait in the queue behind one deferral
C12_Witness ==
  /\ Len(pendingRequests) = 2
  /\ Cardinality(Deferrals) = 1
  /\ isScheduled

\* the reactions to the settlement of p, the caller's among them, have run
Observed(p) ==
  /\ promises[p].state # "pending"
  /\ \A i \in DOMAIN microtasks : microtasks[i] # Job("catch", p)

\* C13: once the rejection of a getItem(X) promise has been observed, no
\* getItem(X) call returns an already rejected promise.
C13_RetryByReRequest ==
  [][\A x \in ItemIds :
       (/\ GetItemReturns(x)
        /\ \E p \in DOMAIN promises :
             promises[p].itemId = x /\ promises[p].state = "rejected" /\ Observed(p)) =>
         ~(ret'.p \in DOMAIN promises /\ promises[ret'.p].state = "rejected")]_vars

\* C14: a getItem for an id whose item was handed to updateCache, with no
\* primeCache / updateCache of the id and no clearCache since, returns that item.
C14_CacheSyncAfterMutation ==
  (ret # NoReturn /\ synced[ret.itemId] # NoItem) =>
    ret.kind = "cached" /\ ret.item = synced[ret.itemId]

\* C15: a step that removes an entry from the cache empties the cache and
\* changes nothing else of the scheduler (queue, flag, in-flight map, promises,
\* microtasks, activations and their calls); and the step that settles the
\* requests of an activation settles each of them as the outcome of the calls
\* alone determines, whatever the cache holds: rejected when a call failed or
\* the response is malformed, else resolved with the response's item of its id
\* or rejected when the response has none.
C15_ClearCacheFrame ==
  [][/\ (\E x \in ItemIds : cache[x] # NoItem /\ cache'[x] = NoItem) =>
          /\ \A x \in ItemIds : cache'[x] = NoItem
          /\ UNCHANGED <<maxBatchSize, pendingRequests, isScheduled, inFlightRequests,
                         promises, microtasks, execs>>
     /\ \A e \in DOMAIN execs :
          LET ex == execs[e]
              allItems == Flat(ex.resp)
          IN (ex.phase = "allSettled" /\ execs'[e].phase = "done") =>
               \A p \in Range(ex.requests) :
                 IF ex.error # NoError \/ Malformed \in Range(allItems)
                 THEN promises'[p].state = "rejected"
                 ELSE IF \E i \in DOMAIN allItems : allItems[i].itemId = promises[p].itemId
                 THEN /\ promises'[p].state = "fulfilled"
                      /\ promises'[p].value \in Range(allItems)
                      /\ promises'[p].value.itemId = promises[p].itemId
                 ELSE promises'[p].state = "rejected"]_vars

\* the caller of a request that has just been resolved, and whose item the
\* activation has written into the cache, has cleared the cache while the call
\* of another request is out
C15_Witness ==
  \E p, q \in DOMAIN promises :
    /\ promises[p].state = "fulfilled"
    /\ ~promises[p].cleaned
    /\ \A x \in ItemIds : cache[x] = NoItem
    /\ promises[q].state = "pending"
    /\ OutstandingCalls(promises[q].itemId) # {}
    /\ inFlightRequests[promises[q].itemId] = q

\* C16: a getItem(X) made when an earlier request for X has been resolved, the
\* cache has been cleared since (it holds no entry for X) and no request for X
\* is unsettled creates a new pending request.
C16_FetchAfterClear ==
  [][\A x \in ItemIds :
       (/\ GetItemReturns(x)
        /\ cache[x] = NoItem
        /\ ~Outstanding(x)
        /\ \E p \in DOMAIN promises :
             promises[p].itemId = x /\ promises[p].state = "fulfilled") =>
         /\ ret'.kind = "new"
         /\ ret'.p \in Range(pendingRequests')
         /\ promises'[ret'.p].state = "pending"]_vars

\* C17: a primeCache(item) step and an updateCache(item) step both make item
\* the cache entry of item.itemId, whatever the entry was, and leave the other
\* entries, the queue, the flag, the in-flight map, the promises, the
\* microtasks and the activations unchanged; and where item is the entry
\* already, setting it again leaves the cache as it is.
C17_IdempotentPriming ==
  [][\A item \in CallerItems :
       /\ (PrimeCache(item) \/ UpdateCache(item)) =>
            /\ cache' = [x \in ItemIds |-> IF x = item.itemId THEN item ELSE cache[x]]
            /\ UNCHANGED <<maxBatchSize, pendingRequests, isScheduled, inFlightRequests,
                           promises, microtasks, execs>>
       /\ cache[item.itemId] = item => CacheSet(cache, item) = cache]_vars

\* primeCache has replaced the entry a fetch wrote
C17_Witness ==
  \E p \in DOMAIN promises :
    /\ promises[p].itemId = "a"
    /\ promises[p].state = "fulfilled"
    /\ ~promises[p].cleaned
    /\ promises[p].value = ServerItem("a")
    /\ cache["a"] = [itemId |-> "a", val |-> 2]
    /\ synced["a"] = NoItem

\* C18: when getAuthHeaders has thrown or rejected, no bulk call of the
\* activation is ever issued, none of its requests is resolved, and once the
\* activation is over every one of its requests has been rejected with what
\* getAuthHeaders raised, or with "Batch request failed" when that is no Error.
C18_AuthResolutionFailure ==
  \A e \in DOMAIN execs :
    LET ex == execs[e]
    IN ex.auth \in {"rejected", "threw"} =>
         /\ \A k \in DOMAIN ex.chunks : ex.chunks[k] = "none"
         /\ ex.phase \in {"authSettled", "done"}
         /\ ex.raised \in {AuthError, NonError}
         /\ \A p \in Range(ex.requests) :
              /\ promises[p].resolveCalls = 0
              /\ ex.phase = "authSettled" => promises[p].state = "pending"
              /\ ex.phase = "done" =>
                   /\ promises[p].state = "rejected"
                   /\ ~promises[p].cleaned =>
                        promises[p].error = IF ex.raised = NonError
                                            THEN "Batch request failed"
                                            ELSE ex.raised

\* getAuthHeaders rejected with a value that is no Error: the two requests of
\* the activation are rejected with "Batch request failed", and no call was made
C18_Witness ==
  \E e \in DOMAIN execs :
    /\ execs[e].auth = "rejected"
    /\ execs[e].raised = NonError
    /\ execs[e].phase = "done"
    /\ Len(execs[e].requests) = 2
    /\ \A p \in Range(execs[e].requests) :
         promises[p].state = "rejected" /\ promises[p].error = "Batch request failed"

\* C19: every activation of executeBatch with a non-empty snapshot invokes
\* getAuthHeaders exactly once; no chunk call is issued before that
\* invocation's promise has resolved, and every chunk call of the activation
\* is issued with the value it resolved with.
C19_AuthOncePerExecution ==
  \A e \in DOMAIN execs :
    LET ex == execs[e] IN
    ex.requests # <<>> =>
      /\ ex.authCalls = 1
      /\ ex.auth # "resolved" => ex.headers = NoHeaders
      /\ \A k \in DOMAIN ex.chunks :
           IF ex.chunks[k] = "none"
           THEN ex.sent[k] = NoHeaders
           ELSE /\ ex.auth = "resolved"
                /\ ex.headers = Headers(e)
                /\ ex.sent[k] = ex.headers

C19_Witness ==
  \E e1, e2 \in DOMAIN execs :
    /\ e1 < e2
    /\ Len(execs[e1].batches) = 2
    /\ \A k \in DOMAIN execs[e1].chunks :
         execs[e1].chunks[k] # "none" /\ execs[e1].sent[k] = Headers(e1)
    /\ Issued(execs[e2])
    /\ \A k \in DOMAIN execs[e2].chunks : execs[e2].sent[k] = Headers(e2)

\* how many times request p occurs in the sequence of requests
Occurrences(requests, p) == Cardinality({i \in DOMAIN requests : requests[i] = p})

\* how many times the snapshots taken so far hold request p
Captures(p) ==
  LET RECURSIVE Sum(_)
      Sum(e) == IF e = 0 THEN 0 ELSE Occurrences(execs[e].requests, p) + Sum(e - 1)
  IN Sum(Len(execs))

\* C27: getItem appends the request it creates to the queue, and nothing else
\* adds to the queue; an activation of executeBatch that finds requests takes
\* the whole queue as its snapshot and leaves the queue empty in the same step,
\* and no other step changes the queue or a snapshot that holds unsettled
\* requests. So a request that has not settled is once in the queue or once in
\* one snapshot, and a request in the queue has a deferral queued that will
\* capture it.
C27_SnapshotAtomicity ==
  [][/\ Len(promises') > Len(promises) =>
          /\ pendingRequests' = Append(pendingRequests, Len(promises'))
          /\ execs' = execs
     /\ Len(execs') > Len(execs) =>
          /\ pendingRequests # <<>>
          /\ execs'[Len(execs')].requests = pendingRequests
          /\ pendingRequests' = <<>>
          /\ \A e \in DOMAIN execs : execs'[e].requests = execs[e].requests
     /\ (Len(promises') = Len(promises) /\ Len(execs') = Len(execs)) =>
          /\ pendingRequests' = pendingRequests
          /\ \A e \in DOMAIN execs :
               \/ execs'[e].requests = execs[e].requests
               \/ \A p \in Range(execs[e].requests) : promises'[p].cleaned
     /\ \A p \in DOMAIN promises' :
          /\ Occurrences(pendingRequests', p) + Captures(p)' <= 1
          /\ promises'[p].state = "pending" =>
               Occurrences(pendingRequests', p) + Captures(p)' = 1
     /\ pendingRequests' # <<>> => Deferrals' # {}]_vars

\* an activation has taken the request of the first turn and is suspended at
\* getAuthHeaders; a request made meanwhile was captured by a second one
C27_Witness ==
  /\ Len(execs) = 2
  /\ execs[1].requests = <<1>>
  /\ execs[1].phase = "auth"
  /\ execs[2].requests = <<2>>
  /\ promises[2].born = 1
  /\ pendingRequests = <<>>

\* the activations that come to their end in this step
Ending == {e \in DOMAIN execs' :
             /\ execs'[e].phase = "done"
             /\ execs'[e].requests # <<>>
             /\ e \in DOMAIN execs => execs[e].phase # "done"}

\* the resolve or reject callback of request p is called in this step
Settled(p) ==
  \/ promises'[p].state # promises[p].state
  \/ promises'[p].resolveCalls # promises[p].resolveCalls
  \/ promises'[p].rejectCalls # promises[p].rejectCalls

\* C28: a step in which an activation fails rejects the requests of that
\* activation's snapshot and leaves every other request as it was; whenever a
\* request is resolved or rejected, it is by the one activation that captured
\* it, with that activation's error or with what that activation's own calls
\* returned.
C28_IndependentExecutions ==
  [][/\ \A e \in Ending :
          execs'[e].error # NoError =>
            /\ \A p \in Range(execs'[e].requests) :
                 promises'[p].state = "rejected" /\ promises'[p].error = execs'[e].error
            /\ \A p \in DOMAIN promises \ Range(execs'[e].requests) :
                 promises'[p] = promises[p]
     /\ \A p \in DOMAIN promises :
          Settled(p) =>
            /\ promises[p].state = "pending"
            /\ \E e \in Ending :
                 /\ Ending = {e}
                 /\ p \in Range(execs'[e].requests)
                 /\ promises[p].born < e
                 /\ IF execs'[e].error # NoError
                    THEN promises'[p].state = "rejected"
                    ELSE \/ /\ promises'[p].state = "fulfilled"
                            /\ promises'[p].value \in Range(Flat(execs[e].resp))
                         \/ /\ promises'[p].state = "rejected"
                            /\ promises'[p].error = NotFoundError(promises[p].itemId)]_vars

\* an activation has just failed and rejected its request, while the request
\* of a later activation, made before the failure, is still pending
C28_Witness ==
  \E e1, e2 \in DOMAIN execs :
    /\ e1 < e2
    /\ execs[e1].phase = "done"
    /\ execs[e1].error = ApiError
    /\ \E p \in Range(execs[e1].requests) :
         /\ promises[p].state = "rejected"
         /\ \E i \in DOMAIN microtasks : microtasks[i] = Job("catch", p)
    /\ execs[e2].phase = "calls"
    /\ \A q \in Range(execs[e2].requests) :
         promises[q].state = "pending" /\ promises[q].rejectCalls = 0

\* caller code is running as the reaction to the settlement of request p: the
\* scheduler's catch handler has just queued the .finally of p, and nothing but
\* a deferral may have been queued since
InContinuationOf(p) ==
  /\ turn.open
  /\ \E i \in DOMAIN microtasks :
       /\ microtasks[i] = Job("finally", p)
       /\ \A j \in DOMAIN microtasks : j > i => microtasks[j].type = "executeBatch"

\* the step in which request p is resolved leaves its item in the cache
CachedWhenResolved ==
  \A p \in DOMAIN promises :
    (promises[p].state = "pending" /\ promises'[p].state = "fulfilled") =>
      cache'[promises[p].itemId] = promises'[p].value

ExpectedHeaders(jwt, fails) ==
  IF jwt.kind = "undefined" THEN Unauthenticated
  ELSE IF jwt.kind \in {"sync", "async"} /\ fails THEN Unauthenticated
  ELSE IF jwt.token = "" THEN Unauthenticated
  ELSE <<"Authorization", "Bearer " \o jwt.token>>

\* C26: getAuthHeaders(jwt) never rejects: for a jwt that is undefined, a
\* string, a sync or an async function it fulfils with the Bearer header exactly
\* when jwt yields a non-empty token and with {} otherwise, a throw or rejection
\* of the jwt function included; so under the provider no activation of the
\* scheduler and no dismiss / restore call fails on its headers, and their
\* requests are sent with the Bearer header or with none
C26_AuthHeadersNeverReject ==
  /\ promises = <<>> /\ hook.mutations = <<>> =>
       \A jwt \in JwtProps, fails \in BOOLEAN :
         /\ GetAuthHeaders(jwt, fails).state = "fulfilled"
         /\ GetAuthHeaders(jwt, fails).value = ExpectedHeaders(jwt, fails)
  /\ \A e \in DOMAIN execs :
       /\ execs[e].auth \notin {"rejected", "threw"}
       /\ execs[e].auth = "resolved" /\ execs[e].requests # <<>> =>
            \E fails \in BOOLEAN : execs[e].headers = ExpectedHeaders(hook.jwt, fails)
  /\ \A i \in DOMAIN hook.mutations :
       hook.mutations[i].phase = "client" =>
         \E fails \in BOOLEAN : hook.mutations[i].headers = ExpectedHeaders(hook.jwt, fails)
  /\ hook.outcome.thrown # JwtError

\* the jwt function of the provider has failed, and both a lookup and a dismiss
\* call went on without an Authorization header
C26_Witness ==
  /\ hook.jwt.kind = "async"
  /\ hook.jwt.token # ""
  /\ \E e \in DOMAIN execs :
       /\ execs[e].auth = "resolved"
       /\ execs[e].headers = Unauthenticated
       /\ \E k \in DOMAIN execs[e].chunks :
            execs[e].chunks[k] # "none" /\ execs[e].sent[k] = Unauthenticated
  /\ \E i \in DOMAIN hook.mutations :
       hook.mutations[i].phase = "client" /\ hook.mutations[i].headers = Unauthenticated

\* a dismiss / restore call resumes with the item the client returned
MutationSucceeds == \E i \in DOMAIN hook.mutations, data \in Items : ClientResolves(i, data)

\* a dismiss / restore call resumes in its catch block
MutationRejected ==
  \/ \E i \in DOMAIN hook.mutations, err \in {ApiError, NonError} : ClientRejects(i, err)
  \/ /\ \E i \in DOMAIN hook.mutations : MutationAfterAuth(i)
     /\ Len(hook'.mutations) < Len(hook.mutations)

\* the dismiss / restore calls that return in this step
Returning == {m \in Range(hook.mutations) : m \notin Range(hook'.mutations)}

\* no request of the scheduler is created, queued or registered
NoGetItem ==
  /\ promises' = promises
  /\ pendingRequests' = pendingRequests
  /\ inFlightRequests' = inFlightRequests
  /\ isScheduled' = isScheduled

\* C22: mutation write-through: dismiss() / restore() never calls the
\* scheduler's getItem; when the client's call succeeds, the item state of the
\* (mounted) hook, the scheduler's cache entry for the itemId of the call and,
\* if the call was made with caching enabled, the localStorage entry under the
\* cachePrefix and itemId of the call all hold the item the client returned
C22_MutationWriteThrough ==
  [][/\ (\/ \E op \in {"dismiss", "restore"} : Mutate(op)
         \/ \E i \in DOMAIN hook.mutations : MutationAfterAuth(i)
         \/ MutationRejected)
        => NoGetItem /\ cache' = cache
     /\ MutationSucceeds =>
          /\ NoGetItem
          /\ hook'.outcome.status = "fulfilled"
          /\ \A m \in Returning :
               LET data == hook'.outcome.data
               IN /\ data \in Items
                  /\ hook'.item = data
                  /\ cache'[m.itemId] = data
                  /\ m.enableCache =>
                       localStorage'[<<m.cachePrefix, m.itemId>>].data = data
    ]_vars

\* dismiss() has succeeded with caching enabled: the hook, the scheduler's cache
\* and localStorage hold the dismissed item
C22_Witness ==
  /\ hook.outcome.status = "fulfilled"
  /\ hook.outcome.op = "dismiss"
  /\ hook.enableCache
  /\ hook.item = [itemId |-> HookItemId, val |-> 2]
  /\ cache[HookItemId] = hook.item
  /\ localStorage[HookKey(hook)].data = hook.item

\* C23: mutation failure: when getAuthHeaders or the client's call rejects,
\* dismiss() / restore() sets the error state (the Error thrown, or a new Error
\* "Failed to dismiss / restore item" for a value that is no Error), rethrows
\* what was thrown, and leaves the item state, the scheduler's cache and
\* localStorage as they are
C23_MutationFailure ==
  [][MutationRejected =>
       /\ hook'.outcome.status = "rejected"
       /\ hook'.outcome.thrown \in {ApiError, NonError, JwtError}
       /\ hook'.error # ""
       /\ hook'.error = IF hook'.outcome.thrown = NonError
                        THEN "Failed to " \o hook'.outcome.op \o " item"
                        ELSE hook'.outcome.thrown
       /\ hook'.item = hook.item
       /\ hook'.isLoading = hook.isLoading
       /\ cache' = cache
       /\ localStorage' = localStorage
    ]_vars

\* restore() has failed with a value that is no Error while the hook shows a
\* fetched item: the error is set and the item is still there
C23_Witness ==
  /\ hook.outcome.status = "rejected"
  /\ hook.outcome.op = "restore"
  /\ hook.outcome.thrown = NonError
  /\ hook.error = "Failed to restore item"
  /\ hook.item = ServerItem(HookItemId)
  /\ cache[HookItemId] = hook.item
  /\ hook.mutations = <<>>

\* the cache settings change from caching enabled to disabled, or to another
\* prefix
SettingsSwitch ==
  /\ \E enableCache \in BOOLEAN, cachePrefix \in CachePrefixes :
       ChangeCacheSettings(enableCache, cachePrefix)
  /\ \/ hook.enableCache /\ ~hook'.enableCache
     \/ hook.cachePrefix # hook'.cachePrefix

\* C25: the durable cache follows the caching setting: a fetch, dismiss or
\* restore that succeeds while caching is enabled writes the entry of the
\* tracked key;
\* when caching is switched off or the prefix changes, the entry under the
\* previous prefix is removed; and while caching is disabled no step of the hook
\* writes an entry for the tracked item, the steps of calls that were in flight
\* when the setting changed included
C25_DurableCacheFollowsSetting ==
  [][/\ MutationSucceeds /\ hook.enableCache =>
          localStorage'[HookKey(hook)].data = hook'.outcome.data
     /\ (FetchItemResumes \/ SettlementReaction) /\ hook.enableCache
           /\ hook'.item # hook.item =>
          localStorage'[HookKey(hook)].data = hook'.item
     /\ SettingsSwitch => localStorage'[HookKey(hook)] = NoEntry
     /\ ~hook'.enableCache =>
          \A key \in StorageKeys :
            key[2] = hook'.itemId =>
              localStorage'[key] \in {NoEntry, localStorage[key]}
    ]_vars

\* the fetchItem calls that resume in this step
Resumed == {a \in Range(hook.awaits) : a \notin Range(hook'.awaits)}

\* the lookup of call a was started for an identity the hook has left, or the
\* hook has unmounted
Superseded(a) == a.itemId # hook.itemId \/ hook.phase = "unmounted"

\* C21: superseded lookups are cancelled: when the lookups that settle were
\* all started for an identity the hook no longer tracks, or the hook has
\* unmounted, their settlement changes neither item, error nor isLoading and
\* writes nothing to localStorage, also when the new identity was served from a
\* dismissed localStorage entry
C21_SupersededLookups ==
  [][Resumed # {} /\ (\A a \in Resumed : Superseded(a)) =>
       /\ hook'.item = hook.item
       /\ hook'.error = hook.error
       /\ hook'.isLoading = hook.isLoading
       /\ localStorage' = localStorage
    ]_vars

\* the identity effect runs for another itemId
IdentityChanges == \E itemId \in ItemIds : ChangeItemId(itemId)

C32_FailureLeavesCacheUntouched ==
  [][\A e \in Ending :
       execs'[e].error # NoError =>
         /\ cache' = cache
         /\ Deferrals' \subseteq {i - 1 : i \in Deferrals} \cup Deferrals
         /\ isScheduled' = isScheduled \/ ~isScheduled'
         /\ \A x \in DOMAIN execs : \A k \in DOMAIN execs'[x].chunks :
              execs'[x].chunks[k] = "out" => execs[x].chunks[k] = "out"
    ]_vars

\* the queue holds a request exactly when the flag is set, and then exactly
\* one executeBatch is waiting in the microtask queue
QueueFlag ==
  /\ pendingRequests # <<>> <=> isScheduled
  /\ isScheduled <=> Deferrals # {}
  /\ Cardinality(Deferrals) <= 1

\* C33: in every state between synchronous steps the pending queue is
\* non-empty if and only if isScheduled is true, and then a deferred
\* executeBatch is queued that will pick the requests up; executeBatch never
\* finds an empty snapshot
C33_QueueFlagInvariant ==
  [][/\ QueueFlag
     /\ QueueFlag'
     /\ ExecuteBatch =>
          /\ pendingRequests # <<>>
          /\ Len(execs') = Len(execs) + 1
          /\ execs'[Len(execs')].requests = pendingRequests
    ]_vars

\* a request is queued behind a scheduled executeBatch while an earlier
\* activation, which reset the flag and emptied the queue, is suspended
C33_Witness ==
  /\ Len(pendingRequests) = 1
  /\ isScheduled
  /\ Cardinality(Deferrals) = 1
  /\ \E e \in DOMAIN execs : execs[e].phase = "auth" /\ execs[e].requests # <<>>

\* the requests of the sequence have pairwise different item ids
OnePerId(requests) ==
  \A i, j \in DOMAIN requests :
    ItemIdOf(requests[i]) = ItemIdOf(requests[j]) => i = j

\* C34: in every state the pending queue holds at most one request per item
\* id, each queued request is pending and is the entry of its id in the
\* in-flight map, and so every snapshot an activation takes holds one request
\* per id (the per-id lists of the deduplication step have one element each),
\* whatever getItem, primeCache, updateCache and clearCache calls came before
C34_NoDuplicateIds ==
  /\ OnePerId(pendingRequests)
  /\ \A i \in DOMAIN pendingRequests :
       /\ promises[pendingRequests[i]].state = "pending"
       /\ inFlightRequests[ItemIdOf(pendingRequests[i])] = pendingRequests[i]
  /\ \A e \in DOMAIN execs :
       /\ OnePerId(execs[e].requests)
       /\ Len(Flat(execs[e].batches)) = Len(execs[e].requests)

\* two ids are queued and a further getItem for one of them was handed the
\* promise of the queued request
C34_Witness ==
  /\ Len(pendingRequests) = 2
  /\ ret.kind = "inflight"
  /\ ret.p \in Range(pendingRequests)
  /\ ret.p = inFlightRequests[ret.itemId]

\* C37: the cleanup that runs after the getItem promise p of id X has settled
\* removes the in-flight entry of X, which is p itself and never the promise
\* of a newer request, and leaves the entries of other ids alone; in every
\* state the entry of X, if any, is the one promise of X whose cleanup has not
\* run, so after the cleanup X has no entry until a new request is created
C37_InFlightCleanupExact ==
  [][/\ FinallyReaction =>
          LET p == Head(microtasks).n
          IN /\ promises[p].state # "pending"
             /\ inFlightRequests[ItemIdOf(p)] = p
             /\ inFlightRequests'[ItemIdOf(p)] = NoPromise
             /\ \A id \in ItemIds \ {ItemIdOf(p)} :
                  inFlightRequests'[id] = inFlightRequests[id]
     /\ \A p \in DOMAIN promises :
          IF promises[p].cleaned
          THEN inFlightRequests[ItemIdOf(p)] # p
          ELSE inFlightRequests[ItemIdOf(p)] = p
     /\ \A id \in ItemIds :
          inFlightRequests'[id] \notin {NoPromise, inFlightRequests[id]} =>
            /\ inFlightRequests[id] = NoPromise
            /\ inFlightRequests'[id] = Len(promises')
            /\ Len(promises') = Len(promises) + 1
    ]_vars

\* the cleanup of an earlier request for an id has run, and a newer request
\* for the same id, created afterwards, is registered as in flight
C37_Witness ==
  \E p, q \in DOMAIN promises :
    /\ p < q
    /\ promises[p].itemId = promises[q].itemId
    /\ promises[p].cleaned
    /\ promises[q].state = "pending"
    /\ inFlightRequests[promises[q].itemId] = q

\* a bulk call of an activation that has rejected its callers returns
LateCompletion ==
  \E e \in DOMAIN execs : \E k \in DOMAIN execs[e].chunks :
    /\ execs[e].phase = "done"
    /\ execs[e].error # NoError
    /\ execs[e].chunks[k] = "out"
    /\ \/ \E response \in Responses(execs[e].batches[k]) : ChunkResolves(e, k, response)
       \/ \E error \in {ApiError, NonError} : ChunkRejects(e, k, error)

\* C36: when a bulk call returns after its activation has rejected its callers
\* because another call failed, nothing is written to the cache, no promise
\* is settled (of that activation or of a later request for the same ids),
\* and no job is queued: the activation does not run again
C36_LateChunkDiscarded ==
  [][LateCompletion =>
       /\ cache' = cache
       /\ promises' = promises
       /\ microtasks' = microtasks
       /\ pendingRequests' = pendingRequests
       /\ inFlightRequests' = inFlightRequests
       /\ \A e \in DOMAIN execs : execs[e].phase = "done" => execs'[e].phase = "done"
    ]_vars

\* a bulk call returned after its activation had rejected its callers, while
\* the request of a later activation is still pending and the cache is empty
C36_Witness ==
  /\ execs # <<>>
  /\ execs[1].late
  /\ execs[1].phase = "done"
  /\ \A id \in ItemIds : cache[id] = NoItem
  /\ \E p \in DOMAIN promises : promises[p].state = "pending" /\ promises[p].born >= 1
  /\ \E p \in DOMAIN promises : promises[p].state = "rejected" /\ promises[p].born = 0

HookEntry == localStorage[HookKey(hook)]

\* the durable cache holds an unexpired entry with a dismissedAt, and caching
\* is enabled
DurableDismissed ==
  /\ hook.enableCache
  /\ HookEntry # NoEntry
  /\ ~Expired(HookEntry, hook.cacheExpiration, now)
  /\ HookEntry.data.val = 2

\* this step is a call of fetchItem
FetchItemCalled == hook'.calls = hook.calls + 1

\* fetchItem answers from the durable entry: the scheduler's cache is primed
\* with it, it is the hook's item, isLoading is false, and nothing is requested
TrustsDurable ==
  /\ cache' = [cache EXCEPT ![HookItemId] = HookEntry.data]
  /\ hook'.item = HookEntry.data
  /\ hook'.isLoading = FALSE
  /\ ret' = NoReturn
  /\ UNCHANGED <<localStorage, pendingRequests, isScheduled, inFlightRequests,
                 promises, microtasks, execs>>

\* C20 as the specification states it: with caching enabled, a call of fetchItem
\* that finds an unexpired dismissed durable entry makes no network call, primes
\* the scheduler's cache with it and exposes it with isLoading false; any other
\* call of fetchItem results in a network round trip for the item: a new
\* request is queued, or a request for it that has not settled is joined.
C20_AsStated ==
  [][(FetchItemCalled /\ hook.enableCache) =>
       IF DurableDismissed
       THEN TrustsDurable
       ELSE \/ ret'.kind = "new" /\ ret'.p \in Range(pendingRequests')
            \/ ret'.kind = "inflight" /\ promises[ret'.p].state = "pending"]_vars

\* C20: with caching enabled, a call of fetchItem that finds an unexpired
\* dismissed durable entry makes no network call, primes the scheduler's cache
\* with it and exposes it with isLoading false; any other call of fetchItem
\* sets isLoading and calls the scheduler's getItem for the item, which queues
\* a new request only if the scheduler's cache has no entry for the item and no
\* request for it is in flight.
C20_DurableCacheAsymmetry ==
  [][(FetchItemCalled /\ hook.enableCache) =>
       IF DurableDismissed
       THEN TrustsDurable
       ELSE /\ ret'.itemId = HookItemId
            /\ hook'.isLoading
            /\ cache' = cache
            /\ IF cache[HookItemId] # NoItem
               THEN /\ ret'.kind = "cached"
                    /\ ret'.item = cache[HookItemId]
                    /\ UNCHANGED <<pendingRequests, promises, microtasks>>
               ELSE IF inFlightRequests[HookItemId] # NoPromise
               THEN /\ ret'.kind = "inflight"
                    /\ ret'.p = inFlightRequests[HookItemId]
                    /\ UNCHANGED <<pendingRequests, promises, microtasks>>
               ELSE /\ ret'.kind = "new"
                    /\ pendingRequests' = Append(pendingRequests, ret'.p)
                    /\ promises'[ret'.p].state = "pending"]_vars

C20_Witness ==
  /\ hook.enableCache
  /\ hook.calls >= 2
  /\ hook.last = "scheduler"
  /\ HookEntry = NoEntry
  /\ ret.kind = "cached"
  /\ ret.item.val = 2
  /\ promises = <<>>

\* this step is a call of fetchItem that reads the durable entry
DurableRead == FetchItemCalled /\ hook.enableCache /\ HookEntry # NoEntry

\* C24: a read of a stored entry with no max age configured returns the entry
\* and keeps it, whatever its age; with a max age configured, a read of an
\* entry whose age exceeds the max age returns nothing and removes the entry,
\* and a read of an entry whose age does not exceed it returns the entry and
\* keeps it. (fetchItem trusts a returned entry that is dismissed and goes to
\* the scheduler otherwise.)
C24_DurableCacheExpiry ==
  [][DurableRead =>
       IF /\ hook.cacheExpiration # Undefined
          /\ now - HookEntry.timestamp > hook.cacheExpiration
       THEN /\ HookEntry' = NoEntry
            /\ hook'.last = "scheduler"
       ELSE /\ localStorage' = localStorage
            /\ HookEntry.data.val = 2 => hook'.last = "durable"]_vars

----------------------------------------------------------------------------
(* Liveness *)

\* the job at the head of the microtask queue runs
Microtask == ExecuteBatch \/ AfterAuth \/ AfterAll \/ CatchReaction \/ FinallyReaction

\* the promise getAuthHeaders() returned to activation e settles
AuthSettles(e) ==
  /\ e \in DOMAIN execs
  /\ \/ AuthResolves(e)
     \/ \E error \in {AuthError, NonError} : AuthRejects(e, error)

\* the promise of the k-th bulk call of activation e settles
ChunkSettles(e, k) ==
  /\ e \in DOMAIN execs
  /\ k \in DOMAIN execs[e].batches
  /\ \/ \E response \in Responses(execs[e].batches[k]) : ChunkResolves(e, k, response)
     \/ \E error \in {ApiError, NonError} : ChunkRejects(e, k, error)

\* the event loop goes on: the job at the head of the microtask queue runs, or,
\* when the queue is empty, a promise of a collaborator settles
Progress ==
  \/ Microtask
  \/ \E e \in DOMAIN execs : AuthSettles(e)
  \/ \E e \in DOMAIN execs : \E k \in DOMAIN execs[e].batches : ChunkSettles(e, k)

\* Every synchronous turn of caller code ends (a returned getItem call is taken by
\* its caller), after which the event loop goes on. Caller code may run for ever
\* in turn after turn, and the event loop's steps are disabled while a turn runs,
\* hence strong fairness. Fairness of the loop as a whole is weaker than fairness
\* of each microtask and each settlement.
LiveSpec ==
  /\ Init /\ [][Next]_vars
  /\ WF_vars(Return)
  /\ SF_vars(Progress)

LoadingProgress ==
  \/ FetchItemResumes
  \/ SettlementReaction
  \/ ProviderExecuteBatch
  \/ \E e \in DOMAIN execs : ProviderAuthSettles(e)
  \/ AfterAuth
  \/ \E e \in DOMAIN execs : \E k \in DOMAIN execs[e].batches :
       \E response \in ContractResponses(execs[e].batches[k]) :
         ChunkResolves(e, k, response)
  \/ \E e \in DOMAIN execs : \E k \in DOMAIN execs[e].batches :
       \E error \in {ApiError, NonError} :
       ChunkRejects(e, k, error)
  \/ AfterAll
  \/ FinallyReaction

\* fetchItem reaches its `await` once getItem has returned, and the event loop
\* goes on after every render: the promises the hook awaits settle. Renders
\* (mount, new props, unmount) are under no fairness condition
LoadingSpec ==
  /\ ControllerInit({NoJwt}, {NoItem}, StoredEntries(OtherItemId))
  /\ [][LoadingNext]_vars
  /\ WF_vars(FetchItemAwaits)
  /\ SF_vars(LoadingProgress)

\* a lookup starts: fetchItem passes setIsLoading(true) and calls getItem
LookupStarts == hook'.calls = hook.calls + 1 /\ hook'.last = "scheduler"

\* C39: while the hook stays mounted and the promises it awaits settle,
\* isLoading = true leads to isLoading = false, whatever identity changes,
\* cache-setting changes and completions come in between; and isLoading goes
\* from false to true only in a step that starts a lookup
C39_LoadingEnds ==
  /\ (hook.phase = "mounted" /\ hook.isLoading)
       ~> (hook.phase # "mounted" \/ ~hook.isLoading)
  /\ [][~hook.isLoading /\ hook'.isLoading => LookupStarts]_vars

\* a lookup was superseded by a later one, the superseded call has resumed and
\* returned, and the later one has completed and set isLoading to false
C39_Witness ==
  /\ hook.phase = "mounted"
  /\ hook.aborted # {}
  /\ hook.awaits = <<>>
  /\ hook.controller \notin hook.aborted
  /\ hook.last = "scheduler"
  /\ ~hook.isLoading

====
